---- MODULE Spec2Model ----
(***************************************************************************)
(* Model of the interaction-state core of the chart application:           *)
(*   - the sync registry of src/utils/syncConfig.ts (tooltips, brushes,     *)
(*     listeners keyed by syncId),                                          *)
(*   - the useBrush hook of src/hooks/useBrush.ts with the brush helpers    *)
(*     of src/utils/brushConfig.ts,                                         *)
(*   - the pure index/value transforms of syncConfig.ts,                    *)
(*   - parseConfig and inferChartType, and the reference values of          *)
(*     src/utils/referenceConfig.ts,                                        *)
(*   - the useSyncedTooltip / useSyncedBrush hooks of                       *)
(*     src/context/SyncStateContext.tsx and the legend clicks of            *)
(*     src/utils/legendConfig.tsx.                                          *)
(* JavaScript objects and Maps are functions whose DOMAIN is the set of     *)
(* present keys; an optional value is <<>> (undefined) or <<v>>.            *)
(***************************************************************************)
EXTENDS Integers, Sequences, FiniteSets, TLC

VARIABLES
    tooltips, brushes, listeners,   \* GlobalSyncState (syncConfig.ts)
    lastOp,                         \* the registry call just made
    storage,                        \* sessionStorage, by sync id (brushConfig.ts)
    hooks,                          \* the useBrush instances
    synced,                         \* the useSyncedTooltip / useSyncedBrush instances
    hiddenSeries,                   \* the hiddenSeries state of a chart (BarChart.tsx)
    call                            \* a call of a pure function and its result

vars == <<tooltips, brushes, listeners, lastOp, storage, hooks, synced, hiddenSeries, call>>
registryVars == <<tooltips, brushes, listeners, lastOp>>
hookVars == <<storage, hooks, synced, hiddenSeries>>

\* call holds the last call of a pure function: none yet
NoCall == [fn |-> "none", args |-> <<>>, result |-> <<>>]

(* ------------------------------ bounds --------------------------------- *)

\* tooltip indices offered to handleSyncedTooltip are 1..MaxIndex
MaxIndex == 1
\* brush ranges offered to handleSyncedBrush start in 0..MaxBrushIndex and end
\* at MaxBrushIndex + 1
MaxBrushIndex == 1

\* datasets given to useBrush and onBrushChange have 0..MaxDataLength records
MaxDataLength == 2
\* containers of touch events are 0..MaxWidth wide
MaxWidth == 2
\* reset timers of one hook pending at a time
MaxTimers == 1
\* datasets given to the index/value transforms have 0..MaxRows records
MaxRows == 3
\* keyboard steps are 1..MaxStep positions
MaxStep == 2
\* inline datasets given to parseConfig have 0..MaxRecords items
MaxRecords == 3
\* calculateMedian is given 0..MaxValues numbers
MaxValues == 4
\* buildReferenceElements is given 0..MaxElements reference elements
MaxElements == 2

Keys == {"k1", "k2"}
Listeners == {"l1", "l2"}
Hooks == {"h1", "h2"}
SyncedHooks == {"s1"}

(* --------------------------- JS primitives ----------------------------- *)

None == <<>>
Some(x) == <<x>>

\* obj[field], undefined when the field is absent
Get(obj, field) == IF field \in DOMAIN obj THEN Some(obj[field]) ELSE None

\* Map.delete / removing a property
Remove(m, k) == [x \in DOMAIN m \ {k} |-> m[x]]

\* Map.set
Put(m, k, v) == (k :> v) @@ m

Max(a, b) == IF a >= b THEN a ELSE b
Min(a, b) == IF a <= b THEN a ELSE b

\* a one-field object, or the empty object when the option is undefined
Field(name, opt) == IF opt = None THEN <<>> ELSE name :> opt[1]

Opt(S) == {None} \cup {Some(x) : x \in S}

\* x ?? d
OrElse(opt, d) == IF opt = None THEN d ELSE opt[1]

(* ----------------------------- syncConfig ------------------------------ *)

\* GlobalSyncState as one value, as the functions receive it
Registry == [tooltips |-> tooltips, brushes |-> brushes, listeners |-> listeners]

createGlobalSyncState == [tooltips |-> <<>>, brushes |-> <<>>, listeners |-> <<>>]

\* a list push in place of Set.add: an element already present is added again
SetAdd_push(s, x) == Append(s, x)

\* Set.add keeps insertion order and ignores an element already present
SetAdd(s, x) == IF \E i \in 1..Len(s) : s[i] = x THEN s ELSE Append(s, x)

SetDelete(s, x) == SelectSeq(s, LAMBDA y : y # x)

registerSyncListener(st, syncId, listener) ==
    LET withSet == IF syncId \in DOMAIN st.listeners
                   THEN st.listeners
                   ELSE Put(st.listeners, syncId, <<>>)
    IN  [st EXCEPT !.listeners = Put(withSet, syncId, SetAdd(withSet[syncId], listener))]

unregisterSyncListener(st, syncId, listener) ==
    IF syncId \in DOMAIN st.listeners
    THEN [st EXCEPT !.listeners = Put(st.listeners, syncId, SetDelete(st.listeners[syncId], listener))]
    ELSE st

\* the listener calls made, in order: each gets the state object as it is then
notifyListeners(st, syncId) ==
    IF syncId \in DOMAIN st.listeners
    THEN [i \in 1..Len(st.listeners[syncId]) |->
            [listener |-> st.listeners[syncId][i], state |-> st]]
    ELSE <<>>

\* result of a mutating call: the state after it, the listener calls it made, whether it threw
Done(st, calls) == [state |-> st, calls |-> calls, threw |-> FALSE]
Threw(st) == [state |-> st, calls |-> <<>>, threw |-> TRUE]

\* the new object built from tooltipData alone, the existing tooltip dropped
handleSyncedTooltip_replace(st, syncId, tooltipData) ==
    LET updatedTooltip == ("syncId" :> syncId) @@ tooltipData @@ [active |-> FALSE]
        st1 == [st EXCEPT !.tooltips = Put(st.tooltips, syncId, updatedTooltip)]
    IN  Done(st1, notifyListeners(st1, syncId))

\* the listeners notified before the tooltip is stored
handleSyncedTooltip_notifyFirst(st, syncId, tooltipData) ==
    LET existingTooltip == IF syncId \in DOMAIN st.tooltips
                           THEN st.tooltips[syncId]
                           ELSE [syncId |-> syncId, active |-> FALSE]
        updatedTooltip == ("syncId" :> syncId) @@ tooltipData @@ existingTooltip
        st1 == [st EXCEPT !.tooltips = Put(st.tooltips, syncId, updatedTooltip)]
    IN  Done(st1, notifyListeners(st, syncId))

handleSyncedTooltip(st, syncId, tooltipData) ==
    LET existingTooltip == IF syncId \in DOMAIN st.tooltips
                           THEN st.tooltips[syncId]
                           ELSE [syncId |-> syncId, active |-> FALSE]
        updatedTooltip == ("syncId" :> syncId) @@ tooltipData @@ existingTooltip
        st1 == [st EXCEPT !.tooltips = Put(st.tooltips, syncId, updatedTooltip)]
    IN  Done(st1, notifyListeners(st1, syncId))

getActiveSyncedTooltip(st, syncId) ==
    IF syncId \in DOMAIN st.tooltips /\ st.tooltips[syncId].active
    THEN Some(st.tooltips[syncId])
    ELSE None

\* the entry deleted in place of its active flag being lowered
clearSyncedTooltip_delete(st, syncId) ==
    IF syncId \in DOMAIN st.tooltips
    THEN LET st1 == [st EXCEPT !.tooltips = Remove(st.tooltips, syncId)]
         IN  Done(st1, notifyListeners(st1, syncId))
    ELSE Done(st, <<>>)

clearSyncedTooltip(st, syncId) ==
    IF syncId \in DOMAIN st.tooltips
    THEN LET tooltip == [st.tooltips[syncId] EXCEPT !.active = FALSE]
             st1 == [st EXCEPT !.tooltips = Put(st.tooltips, syncId, tooltip)]
         IN  Done(st1, notifyListeners(st1, syncId))
    ELSE Done(st, <<>>)

\* !x for an optional number: undefined and 0 are falsy
Falsy(opt) == opt = None \/ opt[1] = 0

\* the truthiness test without its "!== 0" exemption
StartIndexMissing_zeroRejected(brushData) ==
    Falsy(Get(brushData, "dataStartIndex"))

StartIndexMissing(brushData) ==
    /\ Falsy(Get(brushData, "dataStartIndex"))
    /\ Get(brushData, "dataStartIndex") # Some(0)

handleSyncedBrush(st, syncId, brushData) ==
    IF StartIndexMissing(brushData) THEN Threw(st)
    ELSE IF Get(brushData, "dataEndIndex") = None THEN Threw(st)
    ELSE LET updatedBrush == [syncId |-> syncId,
                              dataStartIndex |-> brushData.dataStartIndex,
                              dataEndIndex |-> brushData.dataEndIndex]
             st1 == [st EXCEPT !.brushes = Put(st.brushes, syncId, updatedBrush)]
         IN  Done(st1, notifyListeners(st1, syncId))

getActiveSyncedBrush(st, syncId) == Get(st.brushes, syncId)

\* brushes.clear() in place of brushes.delete(syncId)
clearSyncedBrush_clearAll(st, syncId) ==
    LET st1 == [st EXCEPT !.brushes = <<>>]
    IN  Done(st1, notifyListeners(st1, syncId))

clearSyncedBrush(st, syncId) ==
    LET st1 == [st EXCEPT !.brushes = Remove(st.brushes, syncId)]
    IN  Done(st1, notifyListeners(st1, syncId))

(* --------------------- syncConfig: index and value --------------------- *)
\* A dataset is a sequence of records; JavaScript indices are 0-based, so
\* record i of the code is data[i + 1] here.

\* data.findIndex(item => item[dataKey] === syncValue): the 0-based position of
\* the first matching record, -1 when there is none; the result is returned as is
findIndexByValue(data, dataKey, syncValue) ==
    LET Matches(item) == Get(item, dataKey) = Some(syncValue)
        index == IF \E i \in 1..Len(data) : Matches(data[i])
                 THEN (CHOOSE i \in 1..Len(data) :
                         Matches(data[i]) /\ \A j \in 1..(i - 1) : ~Matches(data[j])) - 1
                 ELSE -1
    IN  Some(index)

findValueByIndex(data, dataKey, index) ==
    IF index >= 0 /\ index < Len(data)
    THEN Get(data[index + 1], dataKey)
    ELSE None

transformTooltipIndex(sourceData, targetData, sourceIndex, sourceDataKey, targetDataKey, syncMethod) ==
    IF syncMethod = "index"
    THEN IF sourceIndex < Len(targetData) THEN Some(sourceIndex) ELSE None
    ELSE IF syncMethod = "value"
    THEN LET sourceValue == findValueByIndex(sourceData, sourceDataKey, sourceIndex)
         IN  IF sourceValue # None
             THEN findIndexByValue(targetData, targetDataKey, sourceValue[1])
             ELSE None
    ELSE None

transformBrushRange(sourceData, targetData, sourceStart, sourceEnd, sourceDataKey, targetDataKey, syncMethod) ==
    IF syncMethod = "index"
    THEN IF sourceEnd < Len(targetData)
         THEN Some([start |-> sourceStart, end |-> sourceEnd])
         ELSE Some([start |-> sourceStart, end |-> Min(sourceEnd, Len(targetData) - 1)])
    ELSE IF syncMethod = "value"
    THEN LET startValue == findValueByIndex(sourceData, sourceDataKey, sourceStart)
             endValue == findValueByIndex(sourceData, sourceDataKey, sourceEnd)
         IN  IF startValue # None /\ endValue # None
             THEN LET targetStart == findIndexByValue(targetData, targetDataKey, startValue[1])
                      targetEnd == findIndexByValue(targetData, targetDataKey, endValue[1])
                  IN  IF targetStart # None /\ targetEnd # None
                      THEN Some([start |-> targetStart[1], end |-> targetEnd[1]])
                      ELSE None
             ELSE None
    ELSE None

(* ----------------------------- brushConfig ----------------------------- *)

\* the clamped indices returned even when they are empty or inverted
buildBrushConfig_noRecovery(config, dataLength) ==
    IF config = None THEN [threw |-> TRUE, error |-> "Brush config is required"]
    ELSE IF dataLength <= 0 THEN [threw |-> TRUE, error |-> "Data length must be greater than 0"]
    ELSE [threw |-> FALSE,
          value |-> [dataStartIndex |-> Max(0, OrElse(Get(config[1], "dataStartIndex"), 0)),
                     dataEndIndex |-> Min(OrElse(Get(config[1], "dataEndIndex"), dataLength), dataLength)]]

\* the Brush props, or the Error thrown; fillOpacity is in hundredths and y is
\* left out when the config declares none
buildBrushConfig(config, dataLength) ==
    IF config = None THEN [threw |-> TRUE, error |-> "Brush config is required"]
    ELSE IF dataLength <= 0 THEN [threw |-> TRUE, error |-> "Data length must be greater than 0"]
    ELSE LET c == config[1]
             dataStartIndex == Max(0, OrElse(Get(c, "dataStartIndex"), 0))
             dataEndIndex == Min(OrElse(Get(c, "dataEndIndex"), dataLength), dataLength)
             rest == Field("y", Get(c, "y")) @@
                     [height |-> OrElse(Get(c, "height"), 40),
                      travelAxis |-> OrElse(Get(c, "travelAxis"), "x"),
                      fill |-> OrElse(Get(c, "fill"), "#8884d8"),
                      stroke |-> OrElse(Get(c, "stroke"), "#666"),
                      fillOpacity |-> OrElse(Get(c, "fillOpacity"), 10),
                      showPreview |-> OrElse(Get(c, "showPreview"), TRUE)]
         IN  IF dataStartIndex >= dataEndIndex
             THEN [threw |-> FALSE,
                   value |-> [dataStartIndex |-> 0, dataEndIndex |-> dataLength] @@ rest]
             ELSE [threw |-> FALSE,
                   value |-> [dataStartIndex |-> dataStartIndex,
                              dataEndIndex |-> dataEndIndex] @@ rest]

\* the slice taken up to and including the record at the end index
filterDataByBrushRange_inclusiveEnd(data, startIndex, endIndex) ==
    IF Len(data) = 0 THEN <<>>
    ELSE LET validatedStart == Max(0, startIndex)
             validatedEnd == Min(endIndex, Len(data))
         IN  IF validatedStart >= validatedEnd THEN <<>>
             ELSE SubSeq(data, validatedStart + 1, Min(validatedEnd + 1, Len(data)))

\* data.slice(validatedStart, validatedEnd): a new array, data is left as it is
filterDataByBrushRange(data, startIndex, endIndex) ==
    IF Len(data) = 0 THEN <<>>
    ELSE LET validatedStart == Max(0, startIndex)
             validatedEnd == Min(endIndex, Len(data))
         IN  IF validatedStart >= validatedEnd THEN <<>>
             ELSE SubSeq(data, validatedStart + 1, validatedEnd)

\* the floor of the end index at start + 1 left out
onBrushChange_noFloor(startIndex, endIndex, dataLength) ==
    LET validatedStartIndex == Max(0, Min(startIndex, dataLength - 1))
        validatedEndIndex == Max(0, Min(endIndex, dataLength))
    IN  [startIndex |-> validatedStartIndex,
         endIndex |-> validatedEndIndex,
         range |-> validatedEndIndex - validatedStartIndex]

onBrushChange(startIndex, endIndex, dataLength) ==
    LET validatedStartIndex == Max(0, Min(startIndex, dataLength - 1))
        validatedEndIndex == Max(validatedStartIndex + 1, Min(endIndex, dataLength))
    IN  [startIndex |-> validatedStartIndex,
         endIndex |-> validatedEndIndex,
         range |-> validatedEndIndex - validatedStartIndex]

\* called with dataLength > 0 only (it throws otherwise)
resetBrush(dataLength) ==
    [startIndex |-> 0, endIndex |-> dataLength, range |-> dataLength]

\* null (None) for a key that is no brush control key
handleBrushKeyboard(key, currentStart, currentEnd, dataLength, stepSize) ==
    IF key = "ArrowLeft"
    THEN LET newStart == Max(0, currentStart - stepSize)
             newEnd == Max(newStart + 1, currentEnd - stepSize)
         IN  Some(onBrushChange(newStart, newEnd, dataLength))
    ELSE IF key = "ArrowRight"
    THEN LET newEnd == Min(dataLength, currentEnd + stepSize)
             newStart == Min(newEnd - 1, currentStart + stepSize)
         IN  Some(onBrushChange(newStart, newEnd, dataLength))
    ELSE IF key = "ArrowUp"
    THEN LET newStart == Max(0, currentStart - stepSize)
             newEnd == Min(dataLength, currentEnd + stepSize)
         IN  Some(onBrushChange(newStart, newEnd, dataLength))
    ELSE IF key = "ArrowDown"
    THEN LET newStart == Min(currentEnd - 1, currentStart + stepSize)
             newEnd == Max(newStart + 1, currentEnd - stepSize)
         IN  Some(onBrushChange(newStart, newEnd, dataLength))
    ELSE None

\* Math.round of the quotient num / den (den > 0): halves round up
RoundDiv(num, den) == (2 * num + den) \div (2 * den)

\* the index truncated where the code rounds it
handleBrushTouch_floor(touchX, containerWidth, dataLength, isTouchStart) ==
    IF containerWidth <= 0 THEN 0
    ELSE LET index == IF touchX <= 0 THEN 0
                      ELSE IF touchX >= containerWidth THEN dataLength - 1
                      ELSE (touchX * (dataLength - 1)) \div containerWidth
         IN  Max(0, Min(index, dataLength - 1))

\* ratio = clamp(touchX / containerWidth, 0, 1); index = round(ratio * (dataLength - 1)).
\* The quotient is exact here for the widths offered (halves only arise from
\* even widths, which binary floating point represents exactly).
handleBrushTouch(touchX, containerWidth, dataLength, isTouchStart) ==
    IF containerWidth <= 0 THEN 0
    ELSE LET index == IF touchX <= 0 THEN 0
                      ELSE IF touchX >= containerWidth THEN dataLength - 1
                      ELSE RoundDiv(touchX * (dataLength - 1), containerWidth)
         IN  Max(0, Min(index, dataLength - 1))

\* sessionStorage.setItem of the four fields; the copy is what the caller gets back
syncBrushState(store, brushState, syncId) ==
    IF syncId = None
    THEN [storage |-> store, state |-> brushState]
    ELSE LET syncedState == [isEnabled |-> brushState.isEnabled,
                             dataStartIndex |-> brushState.dataStartIndex,
                             dataEndIndex |-> brushState.dataEndIndex,
                             isResetting |-> brushState.isResetting]
         IN  [storage |-> Put(store, syncId[1], syncedState), state |-> syncedState]

\* sessionStorage.getItem and JSON.parse: the stored state, null (None) when there is none
getSyncedBrushState(store, syncId) ==
    IF syncId = None THEN None ELSE Get(store, syncId[1])

\* the error message, or null (None) when the configuration is accepted;
\* config is None when undefined, fillOpacity is in hundredths
validateBrushConfig(config, dataLength) ==
    IF dataLength = 0 THEN Some("Cannot enable brush on empty data")
    ELSE IF config = None THEN None
    ELSE LET c == config[1]
         IN  IF "dataStartIndex" \in DOMAIN c /\ c.dataStartIndex < 0
             THEN Some("dataStartIndex cannot be negative")
             ELSE IF "dataEndIndex" \in DOMAIN c /\ c.dataEndIndex > dataLength
             THEN Some("dataEndIndex exceeds data length")
             ELSE IF /\ "dataStartIndex" \in DOMAIN c
                     /\ "dataEndIndex" \in DOMAIN c
                     /\ c.dataStartIndex >= c.dataEndIndex
             THEN Some("dataStartIndex must be less than dataEndIndex")
             ELSE IF "height" \in DOMAIN c /\ c.height <= 0
             THEN Some("height must be greater than 0")
             ELSE IF "fillOpacity" \in DOMAIN c /\ (c.fillOpacity < 0 \/ c.fillOpacity > 100)
             THEN Some("fillOpacity must be between 0 and 1")
             ELSE None

\* called with dataLength > 0 only (it throws otherwise)
createInitialBrushState(dataLength, enabled) ==
    [isEnabled |-> enabled, dataStartIndex |-> 0, dataEndIndex |-> dataLength,
     isResetting |-> FALSE]

(* ------------------------------ useBrush ------------------------------- *)

\* the useState initializer of brushState
InitialBrushState(store, config, dataLength, syncId) ==
    IF dataLength = 0
    THEN [isEnabled |-> FALSE, dataStartIndex |-> 0, dataEndIndex |-> 0, isResetting |-> FALSE]
    ELSE IF syncId # None /\ getSyncedBrushState(store, syncId) # None
    THEN getSyncedBrushState(store, syncId)[1]
    ELSE LET c == OrElse(config, <<>>)
             initialState == createInitialBrushState(dataLength, OrElse(Get(c, "enabled"), TRUE))
         IN  IF Get(c, "dataStartIndex") # None \/ Get(c, "dataEndIndex") # None
             THEN [initialState EXCEPT
                     !.dataStartIndex = OrElse(Get(c, "dataStartIndex"), 0),
                     !.dataEndIndex = OrElse(Get(c, "dataEndIndex"), dataLength)]
             ELSE initialState

\* a hook instance that is not mounted; stateRef tells the brushState object
\* from the one before it: setBrushState with a new object changes it
Unmounted ==
    [mounted |-> FALSE, dataLength |-> 0, syncId |-> None, isValid |-> FALSE,
     brushState |-> [isEnabled |-> FALSE, dataStartIndex |-> 0, dataEndIndex |-> 0,
                     isResetting |-> FALSE],
     stateRef |-> 0, timers |-> 0, effectPending |-> FALSE]

\* setBrushState of handleBrushChange: a new state object, so the effect runs again
handleBrushChange(hook, startIndex, endIndex) ==
    LET result == onBrushChange(startIndex, endIndex, hook.dataLength)
    IN  [hook EXCEPT !.brushState.dataStartIndex = result.startIndex,
                     !.brushState.dataEndIndex = result.endIndex,
                     !.brushState.isResetting = FALSE,
                     !.stateRef = 1 - @,
                     !.effectPending = TRUE]

\* handleTouchEvent past its isValidData guard: a start touch moves the start
\* edge, any other touch the end edge
handleTouchEvent(hook, touchX, containerWidth, isTouchStart) ==
    LET index == handleBrushTouch(touchX, containerWidth, hook.dataLength, isTouchStart)
    IN  IF isTouchStart
        THEN handleBrushChange(hook, index, hook.brushState.dataEndIndex)
        ELSE handleBrushChange(hook, hook.brushState.dataStartIndex, index)

(* ------------------------ registry: inputs ----------------------------- *)

\* partial tooltip objects passed by the callers: any subset of active / index
TooltipInputs ==
    { Field("active", a) @@ Field("index", i) :
        a \in Opt(BOOLEAN), i \in Opt(1..MaxIndex) }

\* partial tooltip objects with every field of SyncedTooltipState
RichTooltipInputs ==
    { Field("syncId", s) @@ Field("active", a) @@ Field("index", i)
        @@ Field("value", v) @@ Field("data", d) :
        s \in Opt({"other"}), a \in Opt(BOOLEAN), i \in Opt(1..MaxIndex),
        v \in Opt({"Jan", "Feb"}), d \in Opt({"rowA"}) }

\* partial brush objects: each bound missing or a number
BrushInputs ==
    { Field("dataStartIndex", s) @@ Field("dataEndIndex", e) :
        s \in Opt(0..MaxBrushIndex), e \in Opt({MaxBrushIndex + 1}) }

(* ------------------- useSyncedTooltip / useSyncedBrush ----------------- *)
\* One record per hook instance: the syncId of its last render, the value of
\* its useState cell, and the key its effect's listener is registered under.
\* The listener of instance s is named s: the cleanup removes it before the
\* next effect adds a new one, so one instance has one listener at a time.

NotRendered ==
    [mounted |-> FALSE, kind |-> "", syncId |-> "", value |-> None, listening |-> None]

\* getActiveSyncedTooltip for useSyncedTooltip, getActiveSyncedBrush for useSyncedBrush
getActiveSynced(kind, st, syncId) ==
    IF kind = "tooltip"
    THEN getActiveSyncedTooltip(st, syncId)
    ELSE getActiveSyncedBrush(st, syncId)

\* the listener: setTooltip(getActiveSyncedTooltip(state, syncId)), with the
\* syncId its effect closed over
Listened(hook, state) ==
    [hook EXCEPT !.value = getActiveSynced(hook.kind, state, hook.listening[1])]

\* the hook instances after the listener calls of one notification
Delivered(calls) ==
    [s \in SyncedHooks |->
        IF \E i \in 1..Len(calls) : calls[i].listener = s
        THEN Listened(synced[s], calls[CHOOSE i \in 1..Len(calls) : calls[i].listener = s].state)
        ELSE synced[s]]

(* ------------------------ registry: actions ---------------------------- *)

\* lastOp records the call just made: its arguments, whether it threw and the
\* listener calls it made before returning; Idle between calls
Idle == [op |-> "idle", syncId |-> "", arg |-> <<>>, threw |-> FALSE, calls |-> <<>>]

Called(op, syncId, arg, r) ==
    [op |-> op, syncId |-> syncId, arg |-> arg, threw |-> r.threw, calls |-> r.calls]

RegisterSyncListener(K, L) ==
    \E k \in K, l \in L :
        /\ lastOp = Idle
        /\ listeners' = registerSyncListener(Registry, k, l).listeners
        /\ lastOp' = Called("registerSyncListener", k, l, Done(Registry, <<>>))
        /\ UNCHANGED <<tooltips, brushes, storage, hooks, synced, hiddenSeries, call>>

UnregisterSyncListener(K, L) ==
    \E k \in K, l \in L :
        /\ lastOp = Idle
        /\ listeners' = unregisterSyncListener(Registry, k, l).listeners
        /\ lastOp' = Called("unregisterSyncListener", k, l, Done(Registry, <<>>))
        /\ UNCHANGED <<tooltips, brushes, storage, hooks, synced, hiddenSeries, call>>

HandleSyncedTooltip(K, In) ==
    \E k \in K, d \in In :
        LET r == handleSyncedTooltip(Registry, k, d)
        IN  /\ lastOp = Idle
            /\ tooltips' = r.state.tooltips
            /\ brushes' = r.state.brushes
            /\ listeners' = r.state.listeners
            /\ lastOp' = Called("handleSyncedTooltip", k, d, r)
            /\ synced' = Delivered(r.calls)
            /\ UNCHANGED <<storage, hooks, hiddenSeries, call>>

ClearSyncedTooltip(K) ==
    \E k \in K :
        LET r == clearSyncedTooltip(Registry, k)
        IN  /\ lastOp = Idle
            /\ tooltips' = r.state.tooltips
            /\ brushes' = r.state.brushes
            /\ listeners' = r.state.listeners
            /\ lastOp' = Called("clearSyncedTooltip", k, <<>>, r)
            /\ synced' = Delivered(r.calls)
            /\ UNCHANGED <<storage, hooks, hiddenSeries, call>>

HandleSyncedBrush(K, In) ==
    \E k \in K, d \in In :
        LET r == handleSyncedBrush(Registry, k, d)
        IN  /\ lastOp = Idle
            /\ tooltips' = r.state.tooltips
            /\ brushes' = r.state.brushes
            /\ listeners' = r.state.listeners
            /\ lastOp' = Called("handleSyncedBrush", k, d, r)
            /\ synced' = Delivered(r.calls)
            /\ UNCHANGED <<storage, hooks, hiddenSeries, call>>

ClearSyncedBrush(K) ==
    \E k \in K :
        LET r == clearSyncedBrush(Registry, k)
        IN  /\ lastOp = Idle
            /\ tooltips' = r.state.tooltips
            /\ brushes' = r.state.brushes
            /\ listeners' = r.state.listeners
            /\ lastOp' = Called("clearSyncedBrush", k, <<>>, r)
            /\ synced' = Delivered(r.calls)
            /\ UNCHANGED <<storage, hooks, hiddenSeries, call>>

\* the call has returned to its caller
Return ==
    /\ lastOp # Idle
    /\ lastOp' = Idle
    /\ UNCHANGED <<tooltips, brushes, listeners, storage, hooks, synced, hiddenSeries, call>>

Init ==
    /\ tooltips = createGlobalSyncState.tooltips
    /\ brushes = createGlobalSyncState.brushes
    /\ listeners = createGlobalSyncState.listeners
    /\ lastOp = Idle
    /\ storage = <<>>
    /\ hooks = [h \in Hooks |-> Unmounted]
    /\ synced = [s \in SyncedHooks |-> NotRendered]
    /\ hiddenSeries = <<>>
    /\ call = NoCall

\* two sync groups, two listeners
Next ==
    \/ RegisterSyncListener(Keys, Listeners)
    \/ UnregisterSyncListener(Keys, Listeners)
    \/ HandleSyncedTooltip(Keys, TooltipInputs)
    \/ ClearSyncedTooltip(Keys)
    \/ HandleSyncedBrush(Keys, BrushInputs)
    \/ ClearSyncedBrush(Keys)
    \/ Return

Spec == Init /\ [][Next]_vars

\* one sync group, tooltips with every field
TooltipNext ==
    \/ RegisterSyncListener({"k1"}, Listeners)
    \/ UnregisterSyncListener({"k1"}, Listeners)
    \/ HandleSyncedTooltip({"k1"}, RichTooltipInputs)
    \/ ClearSyncedTooltip({"k1"})
    \/ HandleSyncedBrush({"k1"}, BrushInputs)
    \/ ClearSyncedBrush({"k1"})
    \/ Return

TooltipSpec == Init /\ [][TooltipNext]_vars

(* ------------------------ registry: properties ------------------------- *)

TipFields == {"active", "index", "value", "data"}

\* how many of the listener calls went to listener l
Count(calls, l) == Cardinality({i \in 1..Len(calls) : calls[i].listener = l})

RegisteredFor(ls, k, l) == k \in DOMAIN ls /\ \E i \in 1..Len(ls[k]) : ls[k][i] = l

\* C3: a handleSyncedTooltip call on key k leaves, in each field, the value
\* the call gave, else the value the stored tooltip had (active = false and
\* the other fields absent when there was none), with syncId = k; by
\* induction over a sequence of calls each field holds the value of the most
\* recent call that gave it.  getActiveSyncedTooltip then yields the merged
\* tooltip exactly when that active flag is true, undefined otherwise.
TooltipMergeKeepsLatestFields ==
    [][lastOp'.op = "handleSyncedTooltip" =>
        LET k == lastOp'.syncId
            d == lastOp'.arg
            had(f) == k \in DOMAIN tooltips /\ f \in DOMAIN tooltips[k]
            active == IF "active" \in DOMAIN d THEN d.active
                      ELSE IF had("active") THEN tooltips[k].active ELSE FALSE
        IN  /\ k \in DOMAIN tooltips'
            /\ tooltips'[k].syncId = k
            /\ DOMAIN tooltips'[k] \subseteq TipFields \cup {"syncId"}
            /\ \A f \in TipFields :
                 Get(tooltips'[k], f) =
                    IF f \in DOMAIN d THEN Some(d[f])
                    ELSE IF had(f) THEN Some(tooltips[k][f])
                    ELSE IF f = "active" THEN Some(FALSE) ELSE None
            /\ getActiveSyncedTooltip(Registry', k) =
                    IF active THEN Some(tooltips'[k]) ELSE None
     ]_vars

\* C3 witness: a call giving only value, after a call that gave active and
\* index: the stored tooltip keeps both and is the active one
TooltipMergeWitness ==
    /\ lastOp.op = "handleSyncedTooltip"
    /\ DOMAIN lastOp.arg = {"value"}
    /\ "k1" \in DOMAIN tooltips
    /\ DOMAIN tooltips["k1"] = {"syncId", "active", "index", "value"}
    /\ tooltips["k1"].active
    /\ getActiveSyncedTooltip(Registry, "k1") = Some(tooltips["k1"])

NotifyingOps == {"handleSyncedTooltip", "handleSyncedBrush", "clearSyncedBrush"}

\* C4: a successful handleSyncedTooltip, handleSyncedBrush or clearSyncedBrush
\* on key k calls each listener registered for k exactly once, with the global
\* state, before it returns, and calls no listener that is not registered for
\* k (never registered, unregistered before, or registered twice: once).
MutationNotifiesEachListenerOnce ==
    (lastOp.op \in NotifyingOps /\ ~lastOp.threw) =>
        /\ \A l \in Listeners :
             Count(lastOp.calls, l) =
                IF RegisteredFor(listeners, lastOp.syncId, l) THEN 1 ELSE 0
        /\ \A i \in 1..Len(lastOp.calls) :
             /\ lastOp.calls[i].listener \in Listeners
             /\ lastOp.calls[i].state = Registry

\* C4 witness: l1 listens on k1 and l2 only on k2; a brush set on k1 called l1 alone
NotifyWitness ==
    /\ lastOp.op = "handleSyncedBrush"
    /\ ~lastOp.threw
    /\ lastOp.syncId = "k1"
    /\ DOMAIN listeners = {"k1", "k2"}
    /\ listeners["k1"] = <<"l1">>
    /\ listeners["k2"] = <<"l2">>
    /\ Len(lastOp.calls) = 1
    /\ lastOp.calls[1].listener = "l1"

\* C5: handleSyncedBrush throws when a bound is missing, leaving the three
\* maps as they were and calling no listener; with both bounds given
\* (dataStartIndex = 0 included) it does not throw and the brush of k becomes
\* exactly {syncId: k, dataStartIndex, dataEndIndex}.
BrushRequiresBothBounds ==
    [][lastOp'.op = "handleSyncedBrush" =>
        LET k == lastOp'.syncId
            d == lastOp'.arg
        IN  IF "dataStartIndex" \notin DOMAIN d \/ "dataEndIndex" \notin DOMAIN d
            THEN /\ lastOp'.threw
                 /\ lastOp'.calls = <<>>
                 /\ tooltips' = tooltips
                 /\ brushes' = brushes
                 /\ listeners' = listeners
            ELSE /\ ~lastOp'.threw
                 /\ Get(brushes', k) =
                        Some([syncId |-> k,
                              dataStartIndex |-> d.dataStartIndex,
                              dataEndIndex |-> d.dataEndIndex])
     ]_vars

\* C5 witness: a brush starting at index 0 stored over an earlier brush
BrushZeroStartWitness ==
    /\ lastOp.op = "handleSyncedBrush"
    /\ DOMAIN lastOp.arg = {"dataStartIndex", "dataEndIndex"}
    /\ lastOp.arg.dataStartIndex = 0
    /\ ~lastOp.threw
    /\ getActiveSyncedBrush(Registry, lastOp.syncId) # None
    /\ brushes[lastOp.syncId].dataStartIndex = 0
    /\ Len(lastOp.calls) > 0

MutatingOps == NotifyingOps \cup {"clearSyncedTooltip"}

\* C6: every listener call made by a mutating call on k is handed a state
\* that already holds the tooltip and the brush of k as they are when the call
\* returns: the whole merged tooltip (every field the call gave), the new
\* brush, or the cleared value; getActive* on the returned state agrees.
ListenersSeeWrittenState ==
    lastOp.op \in MutatingOps =>
        \A i \in 1..Len(lastOp.calls) :
            LET s == lastOp.calls[i].state
                k == lastOp.syncId
                d == lastOp.arg
            IN  /\ Get(s.tooltips, k) = Get(tooltips, k)
                /\ Get(s.brushes, k) = Get(brushes, k)
                /\ getActiveSyncedTooltip(s, k) = getActiveSyncedTooltip(Registry, k)
                /\ getActiveSyncedBrush(s, k) = getActiveSyncedBrush(Registry, k)
                /\ lastOp.op = "handleSyncedTooltip" =>
                     /\ k \in DOMAIN s.tooltips
                     /\ \A f \in DOMAIN d \ {"syncId"} : Get(s.tooltips[k], f) = Some(d[f])
                     /\ s.tooltips[k].syncId = k
                /\ lastOp.op = "clearSyncedTooltip" => getActiveSyncedTooltip(s, k) = None
                /\ lastOp.op = "handleSyncedBrush" =>
                     getActiveSyncedBrush(s, k) =
                        Some([syncId |-> k, dataStartIndex |-> d.dataStartIndex,
                              dataEndIndex |-> d.dataEndIndex])
                /\ lastOp.op = "clearSyncedBrush" => getActiveSyncedBrush(s, k) = None

\* C6 witness: a listener was called by a tooltip update that changed an
\* active tooltip's index and sees the new one
WrittenStateWitness ==
    /\ lastOp.op = "handleSyncedTooltip"
    /\ DOMAIN lastOp.arg = {"index"}
    /\ Len(lastOp.calls) = 2
    /\ getActiveSyncedTooltip(lastOp.calls[2].state, lastOp.syncId) # None
    /\ lastOp.calls[2].state.tooltips[lastOp.syncId].index = lastOp.arg.index

TooltipOps == {"handleSyncedTooltip", "clearSyncedTooltip"}
BrushOps == {"handleSyncedBrush", "clearSyncedBrush"}

\* C7: an operation on key k leaves tooltip, brush and listener set of every
\* other key as they were and calls no listener that is not registered for k;
\* a tooltip operation leaves the brushes map, a brush operation the tooltips
\* map, as it was.
SyncGroupsIndependent ==
    [][lastOp'.op # "idle" =>
        LET k == lastOp'.syncId
        IN  /\ \A k2 \in Keys \ {k} :
                 /\ Get(tooltips', k2) = Get(tooltips, k2)
                 /\ Get(brushes', k2) = Get(brushes, k2)
                 /\ Get(listeners', k2) = Get(listeners, k2)
            /\ \A i \in 1..Len(lastOp'.calls) :
                 RegisteredFor(listeners, k, lastOp'.calls[i].listener)
            /\ lastOp'.op \in TooltipOps => brushes' = brushes
            /\ lastOp'.op \in BrushOps => tooltips' = tooltips
     ]_vars

\* C7 witness: the brush of k1 is cleared while k2 holds a brush, an active
\* tooltip and a listener of its own
IndependenceWitness ==
    /\ lastOp.op = "clearSyncedBrush"
    /\ lastOp.syncId = "k1"
    /\ getActiveSyncedBrush(Registry, "k2") # None
    /\ getActiveSyncedTooltip(Registry, "k2") # None
    /\ RegisteredFor(listeners, "k2", "l2")
    /\ ~RegisteredFor(listeners, "k1", "l2")
    /\ RegisteredFor(listeners, "k1", "l1")

\* C8 as claimed: clearSyncedTooltip on k, whatever the state of k, leaves no
\* active tooltip, keeps the other stored fields and calls every listener
\* registered for k.
ClearTooltipAlwaysNotifies ==
    [][lastOp'.op = "clearSyncedTooltip" =>
        LET k == lastOp'.syncId
        IN  /\ getActiveSyncedTooltip(Registry', k) = None
            /\ k \in DOMAIN tooltips =>
                 \A f \in DOMAIN tooltips[k] \ {"active"} :
                    Get(tooltips'[k], f) = Some(tooltips[k][f])
            /\ \A l \in Listeners :
                 RegisteredFor(listeners, k, l) => Count(lastOp'.calls, l) = 1
     ]_vars

\* C8 amended: clearSyncedTooltip on k leaves no active tooltip and keeps the
\* other stored fields; it calls every listener registered for k (once) when a
\* tooltip is stored for k, and when none was ever set it changes nothing and
\* calls no listener.
ClearTooltipNotifiesWhenStored ==
    [][lastOp'.op = "clearSyncedTooltip" =>
        LET k == lastOp'.syncId
        IN  /\ getActiveSyncedTooltip(Registry', k) = None
            /\ IF k \in DOMAIN tooltips
               THEN /\ k \in DOMAIN tooltips'
                    /\ DOMAIN tooltips'[k] = DOMAIN tooltips[k]
                    /\ tooltips'[k].active = FALSE
                    /\ \A f \in DOMAIN tooltips[k] \ {"active"} :
                         Get(tooltips'[k], f) = Some(tooltips[k][f])
                    /\ \A l \in Listeners :
                         Count(lastOp'.calls, l) =
                            IF RegisteredFor(listeners, k, l) THEN 1 ELSE 0
               ELSE /\ tooltips' = tooltips
                    /\ lastOp'.calls = <<>>
            /\ brushes' = brushes
            /\ listeners' = listeners
     ]_vars

\* C8 witness: clearSyncedTooltip on a key that never had a tooltip, with a
\* listener registered: nothing stored, nobody called
ClearUnsetTooltipWitness ==
    /\ lastOp.op = "clearSyncedTooltip"
    /\ lastOp.syncId \notin DOMAIN tooltips
    /\ RegisteredFor(listeners, lastOp.syncId, "l1")
    /\ lastOp.calls = <<>>

(* ------------------------------ parseConfig ---------------------------- *)

\* JS values of data fields: what typeof says, whether Number(v) is NaN, and
\* Number(v) when it is not
Num(n) == [type |-> "number", nan |-> FALSE, num |-> n, text |-> ""]
Str(t) == [type |-> "string", nan |-> TRUE, num |-> 0, text |-> t]
NumStr(n, t) == [type |-> "string", nan |-> FALSE, num |-> n, text |-> t]
Obj == [type |-> "object", nan |-> TRUE, num |-> 0, text |-> ""]

\* a data item that is null; every other item is an object, a function from
\* its own property names to values
NullRow == [isNull |-> TRUE]

\* property names in the order the items of this model list them
FieldOrder ==
    <<"month", "name", "source", "target", "children", "value", "sales", "revenue", "profit">>

\* Object.keys(item)
ObjectKeys(item) == SelectSeq(FieldOrder, LAMBDA k : k \in DOMAIN item)

Includes(seq, x) == \E i \in 1..Len(seq) : seq[i] = x

mockDatabase ==
    "sales-2024" :>
        << [month |-> Str("Jan"), sales |-> Num(4000), revenue |-> Num(2400), profit |-> Num(2400)],
           [month |-> Str("Feb"), sales |-> Num(3000), revenue |-> Num(1398), profit |-> Num(2210)],
           [month |-> Str("Mar"), sales |-> Num(2000), revenue |-> Num(9800), profit |-> Num(2290)],
           [month |-> Str("Apr"), sales |-> Num(2780), revenue |-> Num(3908), profit |-> Num(2000)],
           [month |-> Str("May"), sales |-> Num(1890), revenue |-> Num(4800), profit |-> Num(2181)],
           [month |-> Str("Jun"), sales |-> Num(2390), revenue |-> Num(3800), profit |-> Num(2500)] >>

\* typeof item[key] === "number" || !isNaN(Number(item[key])), item an object
IsNumeric(item, key) ==
    key \in DOMAIN item /\ (item[key].type = "number" \/ ~item[key].nan)

\* "key" in item for every key, item an object
HasAll(item, keys) == keys \subseteq DOMAIN item

LeastOf(S) == CHOOSE i \in S : \A j \in S : i <= j

\* data.every(test) where the test reads a property of the item: "true",
\* "false", or "throw" when a null item is reached before a failing one;
\* passing holds the positions of the objects that pass the test
EveryOutcome(data, passing) ==
    LET stop == {i \in 1..Len(data) : data[i] = NullRow \/ i \notin passing}
    IN  IF stop = {} THEN "true"
        ELSE IF data[LeastOf(stop)] = NullRow THEN "throw" ELSE "false"

\* data.some(test), likewise
SomeOutcome(data, passing) ==
    LET stop == {i \in 1..Len(data) : data[i] = NullRow \/ i \in passing}
    IN  IF stop = {} THEN "false"
        ELSE IF data[LeastOf(stop)] = NullRow THEN "throw" ELSE "true"

Objects(data) == {i \in 1..Len(data) : data[i] # NullRow}

\* Number(item[key]) || 0
NumberOrZero(item, key) ==
    IF key \in DOMAIN item /\ ~item[key].nan THEN item[key].num ELSE 0

\* the funnel rule: the positive values of the one series are non-increasing
\* in at least 60% of their count
FunnelShaped(data, key) ==
    LET values == SelectSeq([i \in 1..Len(data) |-> NumberOrZero(data[i], key)],
                            LAMBDA v : v > 0)
        decreasingCount == Cardinality({i \in 2..Len(values) : values[i] <= values[i - 1]})
    IN  10 * decreasingCount >= 6 * Len(values)

Returned(v) == [threw |-> FALSE, value |-> v]
TypeError == [threw |-> TRUE, error |-> "TypeError"]

Fails(message) == [threw |-> TRUE, error |-> message]

\* the sankey and treemap rules: "sankey", "treemap", "none" or "throw"
StructuralKind(data) ==
    LET sankey == EveryOutcome(data,
                    {i \in Objects(data) : HasAll(data[i], {"source", "target", "value"})})
        nameValue == EveryOutcome(data,
                    {i \in Objects(data) :
                        HasAll(data[i], {"name", "value"}) /\ data[i].value.type = "number"})
    IN  IF sankey = "throw" THEN "throw"
        ELSE IF sankey = "true" THEN "sankey"
        ELSE IF data[1] # NullRow /\ HasAll(data[1], {"children", "name"}) THEN "treemap"
        ELSE IF nameValue = "throw" THEN "throw"
        ELSE IF nameValue = "true" THEN "treemap"
        ELSE "none"

\* the scatter and radar rules: "scatter", "radar", "none" or "throw"
NumericKind(data, series) ==
    LET allNumeric == EveryOutcome(data,
                        {i \in Objects(data) :
                            \A k \in 1..Len(series) : IsNumeric(data[i], series[k])})
    IN  IF Len(series) = 2 /\ Len(data) >= 3 /\ allNumeric = "throw" THEN "throw"
        ELSE IF Len(series) = 2 /\ Len(data) >= 3 /\ allNumeric = "true" THEN "scatter"
        ELSE IF Len(series) >= 3 /\ allNumeric = "throw" THEN "throw"
        ELSE IF Len(series) >= 3 /\ allNumeric = "true" /\ Len(data) >= 3 THEN "radar"
        ELSE "none"

\* the funnel, pie, composed and bar rules: a chart type or "throw"
CountKind(data, series) ==
    IF Len(series) = 1 /\ Len(data) >= 2 /\ Len(data) <= 15 /\ Objects(data) # 1..Len(data)
    THEN "throw"
    ELSE IF Len(series) = 1 /\ Len(data) >= 2 /\ Len(data) <= 15 /\ FunnelShaped(data, series[1])
    THEN "funnel"
    ELSE IF Len(series) = 1 /\ Len(data) >= 3 /\ Len(data) <= 20 THEN "pie"
    ELSE IF Len(series) >= 2 THEN "composed"
    ELSE "bar"

Outcome(kind) == IF kind = "throw" THEN TypeError ELSE Returned(kind)

\* the numeric rules tried before the structural ones
inferChartType_numericFirst(data, series) ==
    IF NumericKind(data, series) # "none" THEN Outcome(NumericKind(data, series))
    ELSE IF StructuralKind(data) # "none" THEN Outcome(StructuralKind(data))
    ELSE Outcome(CountKind(data, series))

inferChartType(data, series) ==
    IF StructuralKind(data) # "none" THEN Outcome(StructuralKind(data))
    ELSE IF NumericKind(data, series) # "none" THEN Outcome(NumericKind(data, series))
    ELSE Outcome(CountKind(data, series))

\* config.data: a JS array, an object with datasetId, or anything else
ArrayData(rows) == [kind |-> "array", rows |-> rows, datasetId |-> ""]
DatasetRef(id) == [kind |-> "dataset", rows |-> <<>>, datasetId |-> id]
InvalidData == [kind |-> "invalid", rows |-> <<>>, datasetId |-> ""]

\* the optional fields parseConfig copies when they are not undefined
PassThroughFields ==
    {"subtitle", "layout", "barSize", "barGap", "barCategoryGap", "maxBarSize", "barRadius",
     "stackOffset", "reverseStackOrder", "baseValue", "curveType", "strokeWidth",
     "fillOpacity", "dotSize", "dotColor", "animationDuration", "animationEasing", "label",
     "tooltip", "legend", "brush", "referenceElements", "axisConfig", "syncId", "styling",
     "palette", "cx", "cy", "innerRadius", "outerRadius", "startAngle", "endAngle"}

Restrict(f, S) == [x \in (DOMAIN f \cap S) |-> f[x]]

\* a string that is neither undefined nor empty
Truthy(opt) == opt # None /\ opt[1] # ""

\* the series given in config, else the non-x-axis keys of the first item that
\* are numeric in some item: Returned(series), or TypeError on a null item
ResolveSeries(config, data, availableKeys, xAxis) ==
    LET declared == OrElse(Get(config, "series"), <<>>)
        candidates == SelectSeq(availableKeys, LAMBDA key : key # xAxis)
        numeric(key) == SomeOutcome(data, {i \in Objects(data) : IsNumeric(data[i], key)})
    IN  IF Len(declared) # 0 THEN Returned(declared)
        ELSE IF \E k \in 1..Len(candidates) : numeric(candidates[k]) = "throw" THEN TypeError
        ELSE Returned(SelectSeq(candidates, LAMBDA key : numeric(key) = "true"))

\* the per-series types: the declared ones and, for a composed chart, "bar"
\* for the first series and "line" for the others where none is declared
BuildSeriesConfig(config, chartType, series) ==
    LET declared == OrElse(Get(config, "seriesConfig"), <<>>)
        names == {series[i] : i \in 1..Len(series)}
    IN  IF chartType = "composed"
        THEN [name \in DOMAIN declared \cup names |->
                IF name \in DOMAIN declared THEN declared[name]
                ELSE IF name = series[1] THEN "bar" ELSE "line"]
        ELSE declared

\* seriesYAxisMap, present when yAxis or yAxis2 is given: the series named by
\* yAxis on the left, the one named by yAxis2 on the right
BuildSeriesYAxisMap(config, series) ==
    LET yAxis == Get(config, "yAxis")
        yAxis2 == Get(config, "yAxis2")
        left == IF Truthy(yAxis) /\ Includes(series, yAxis[1]) THEN yAxis[1] :> "left" ELSE <<>>
        right == IF Truthy(yAxis2) /\ Includes(series, yAxis2[1]) THEN yAxis2[1] :> "right" ELSE <<>>
    IN  IF Truthy(yAxis) \/ Truthy(yAxis2)
        THEN "seriesYAxisMap" :> (right @@ left)
        ELSE <<>>

\* yAxis and yAxis2 are not copied to the canonical configuration
PassThroughAxes_dropped(config) == <<>>

PassThroughAxes(config) == Restrict(config, {"yAxis", "yAxis2"})

\* chartType, data, xAxis and series resolved; the canonical configuration
Canonical(config, data, xAxis, series, chartType) ==
    [chartType |-> chartType,
     title |-> OrElse(Get(config, "title"), "Data Visualization"),
     data |-> ArrayData(data),
     xAxis |-> xAxis,
     series |-> series,
     seriesConfig |-> BuildSeriesConfig(config, chartType, series),
     theme |-> OrElse(Get(config, "theme"), "light")]
    @@ Restrict(config, PassThroughFields)
    @@ BuildSeriesYAxisMap(config, series)
    @@ PassThroughAxes(config)

\* Returned(canonical configuration), or the Error thrown
parseConfig(config) ==
    LET given == Get(config, "data")
        data == IF given[1].kind = "array" THEN given[1].rows
                ELSE mockDatabase[given[1].datasetId]
        availableKeys == ObjectKeys(data[1])
        xAxis == OrElse(Get(config, "xAxis"), availableKeys[1])
        series == ResolveSeries(config, data, availableKeys, xAxis)
        chartType == IF Get(config, "chartType") # None
                     THEN Returned(config.chartType)
                     ELSE inferChartType(data, series.value)
    IN  IF given = None \/ given[1].kind = "invalid"
        THEN Fails("Invalid data: must be an array or have a datasetId property")
        ELSE IF given[1].kind = "dataset" /\ given[1].datasetId \notin DOMAIN mockDatabase
        THEN Fails("Dataset not found")
        ELSE IF Len(data) = 0 THEN Fails("Data must be a non-empty array")
        ELSE IF data[1] = NullRow THEN Fails("Data items must be objects")
        ELSE IF Len(availableKeys) = 0 THEN Fails("Data items must have at least one property")
        ELSE IF ~Includes(availableKeys, xAxis) THEN Fails("X-axis column not found in data")
        ELSE IF series.threw THEN TypeError
        ELSE IF Len(series.value) = 0 THEN Fails("No numeric columns found for visualization")
        ELSE IF chartType.threw THEN TypeError
        ELSE Returned(Canonical(config, data, xAxis, series.value, chartType.value))

(* --------------------------- parseConfig: calls ------------------------ *)

\* data items: plain records, one with a non-numeric and a string-numeric
\* field, the sankey and treemap shapes, an empty object and null
RowShapes ==
    { [month |-> Str("Jan"), sales |-> Num(1), revenue |-> Num(2)],
      [month |-> Str("Feb"), sales |-> Str("n/a"), revenue |-> NumStr(5, "5")],
      [month |-> Str("Apr"), sales |-> Num(3), revenue |-> Num(1), profit |-> Num(1)],
      [source |-> Str("a"), target |-> Str("b"), value |-> Num(1), sales |-> Num(1),
       revenue |-> Num(2)],
      [name |-> Str("a"), value |-> Num(2)],
      [name |-> Str("c"), children |-> Obj, value |-> NumStr(5, "5")],
      <<>>,
      NullRow }

InlineDatasets == {<<>>} \cup UNION { [1..n -> RowShapes] : n \in 1..MaxRecords }

DeclaredSeries == {<<>>, <<"sales">>, <<"sales", "revenue">>, <<"sales", "revenue", "profit">>}

\* parseConfig on an inline dataset, with xAxis, series and chartType declared or not
CallParseConfigData ==
    /\ call = NoCall
    /\ \E rows \in InlineDatasets, xAxis \in Opt({"month", "sales", "region"}),
          series \in Opt(DeclaredSeries), chartType \in Opt({"bar", "composed"}) :
        LET config == ("data" :> ArrayData(rows)) @@ Field("xAxis", xAxis)
                      @@ Field("series", series) @@ Field("chartType", chartType)
        IN  /\ call' = [fn |-> "parseConfig", args |-> [config |-> config],
                        result |-> parseConfig(config), first |-> None]
            /\ UNCHANGED <<registryVars, hookVars>>

ThreeRows ==
    << [month |-> Str("Jan"), sales |-> Num(3), revenue |-> Num(2)],
       [month |-> Str("Feb"), sales |-> Num(2), revenue |-> Num(4)],
       [month |-> Str("Mar"), sales |-> Num(1), revenue |-> Num(6)] >>

\* parseConfig on a fixed dataset given inline, by id, by an unknown id, as a
\* non-array or not at all, with optional fields present or absent
CallParseConfigOptions ==
    /\ call = NoCall
    /\ \E data \in Opt({ArrayData(ThreeRows), DatasetRef("sales-2024"), DatasetRef("missing"),
                        InvalidData}),
          chartType \in Opt({"line", "composed"}),
          seriesConfig \in Opt({"sales" :> "area", "revenue" :> "area"}),
          yAxis \in Opt({"sales", "region", ""}), yAxis2 \in Opt({"revenue"}),
          subtitle \in Opt({"2024"}), syncId \in Opt({"s1"}), syncMethod \in Opt({"value"}),
          width \in Opt({600}), brush \in Opt({[enabled |-> TRUE]}),
          custom \in Opt({"x"}) :
        LET config == Field("data", data) @@ Field("chartType", chartType)
                      @@ Field("seriesConfig", seriesConfig)
                      @@ Field("yAxis", yAxis) @@ Field("yAxis2", yAxis2)
                      @@ Field("subtitle", subtitle) @@ Field("syncId", syncId)
                      @@ Field("syncMethod", syncMethod) @@ Field("width", width)
                      @@ Field("brush", brush) @@ Field("custom", custom)
        IN  /\ call' = [fn |-> "parseConfig", args |-> [config |-> config],
                        result |-> parseConfig(config), first |-> None]
            /\ UNCHANGED <<registryVars, hookVars>>

\* the canonical configuration given to parseConfig as a raw one; first keeps
\* the first result and raw the configuration it was made from
ReparseConfig ==
    /\ call.fn = "parseConfig"
    /\ call.first = None
    /\ ~call.result.threw
    /\ call' = [fn |-> "parseConfig", args |-> [config |-> call.result.value],
                result |-> parseConfig(call.result.value), first |-> Some(call.result),
                raw |-> call.args.config]
    /\ UNCHANGED <<registryVars, hookVars>>

ConfigNext ==
    \/ CallParseConfigData
    \/ CallParseConfigOptions
    \/ ReparseConfig

ConfigSpec == Init /\ [][ConfigNext]_vars

(* --------------------------- useBrush: inputs -------------------------- *)

SyncIds == {"s1"}

\* indices offered by callers: below, inside and above the data
IndexArgs == (-1)..(MaxDataLength + 1)

\* config undefined, or an object with any of dataStartIndex / dataEndIndex
BrushConfigs ==
    {None} \cup
    { Some(Field("dataStartIndex", s) @@ Field("dataEndIndex", e)) :
        s \in Opt(IndexArgs), e \in Opt(IndexArgs) }

KeysPressed == {"ArrowLeft", "ArrowRight", "ArrowUp", "ArrowDown", "Enter"}

TouchXs == (-1)..(MaxWidth + 1)

(* --------------------------- useBrush: actions ------------------------- *)

\* first render of a hook: its state is initialised, its effect is scheduled
Mount(H) ==
    \E h \in H, dataLength \in 0..MaxDataLength, syncId \in Opt(SyncIds), config \in BrushConfigs :
        /\ ~hooks[h].mounted
        /\ hooks' = [hooks EXCEPT ![h] =
                [mounted |-> TRUE, dataLength |-> dataLength, syncId |-> syncId,
                 isValid |-> validateBrushConfig(config, dataLength) = None,
                 brushState |-> InitialBrushState(storage, config, dataLength, syncId),
                 stateRef |-> 0, timers |-> 0, effectPending |-> TRUE]]
        /\ UNCHANGED <<storage, registryVars, synced, hiddenSeries, call>>

\* the component goes away; sessionStorage stays, a late timer has no effect
Unmount(H) ==
    \E h \in H :
        /\ hooks[h].mounted
        /\ hooks' = [hooks EXCEPT ![h] = Unmounted]
        /\ UNCHANGED <<storage, registryVars, synced, hiddenSeries, call>>

\* useEffect(..., [syncId, brushState]): runs after a render that changed either
SyncEffect(H) ==
    \E h \in H :
        /\ hooks[h].mounted
        /\ hooks[h].effectPending
        /\ IF hooks[h].syncId # None
           THEN LET r == syncBrushState(storage, hooks[h].brushState, hooks[h].syncId)
                IN  /\ storage' = r.storage
                    /\ hooks' = [hooks EXCEPT ![h].brushState = r.state,
                                              ![h].stateRef = 1 - @,
                                              ![h].effectPending = TRUE]
           ELSE /\ storage' = storage
                /\ hooks' = [hooks EXCEPT ![h].effectPending = FALSE]
        /\ UNCHANGED <<registryVars, synced, hiddenSeries, call>>

OnBrushChange(H) ==
    \E h \in H, startIndex \in IndexArgs, endIndex \in IndexArgs :
        /\ hooks[h].mounted
        /\ hooks[h].dataLength > 0
        /\ hooks' = [hooks EXCEPT ![h] = handleBrushChange(hooks[h], startIndex, endIndex)]
        /\ UNCHANGED <<storage, registryVars, synced, hiddenSeries, call>>

OnReset(H) ==
    \E h \in H :
        /\ hooks[h].mounted
        /\ hooks[h].dataLength > 0
        /\ hooks[h].timers < MaxTimers
        /\ LET result == resetBrush(hooks[h].dataLength)
           IN  hooks' = [hooks EXCEPT ![h].brushState.dataStartIndex = result.startIndex,
                                      ![h].brushState.dataEndIndex = result.endIndex,
                                      ![h].brushState.isResetting = TRUE,
                                      ![h].stateRef = 1 - @,
                                      ![h].timers = @ + 1,
                                      ![h].effectPending = TRUE]
        /\ UNCHANGED <<storage, registryVars, synced, hiddenSeries, call>>

\* the setTimeout callback of handleReset
ResetTimerFires(H) ==
    \E h \in H :
        /\ hooks[h].mounted
        /\ hooks[h].timers > 0
        /\ hooks' = [hooks EXCEPT ![h].brushState.isResetting = FALSE,
                                  ![h].stateRef = 1 - @,
                                  ![h].timers = @ - 1,
                                  ![h].effectPending = TRUE]
        /\ UNCHANGED <<storage, registryVars, synced, hiddenSeries, call>>

OnKeyDown(H) ==
    \E h \in H, key \in KeysPressed :
        /\ hooks[h].mounted
        /\ hooks[h].dataLength > 0
        /\ LET result == handleBrushKeyboard(key, hooks[h].brushState.dataStartIndex,
                                             hooks[h].brushState.dataEndIndex,
                                             hooks[h].dataLength, 1)
           IN  hooks' = IF result # None
                        THEN [hooks EXCEPT ![h] =
                                handleBrushChange(hooks[h], result[1].startIndex, result[1].endIndex)]
                        ELSE hooks
        /\ UNCHANGED <<storage, registryVars, synced, hiddenSeries, call>>

OnTouch(H) ==
    \E h \in H, touchX \in TouchXs, containerWidth \in 0..MaxWidth, isTouchStart \in BOOLEAN :
        /\ hooks[h].mounted
        /\ hooks[h].dataLength > 0
        /\ hooks' = [hooks EXCEPT ![h] =
                        handleTouchEvent(hooks[h], touchX, containerWidth, isTouchStart)]
        /\ UNCHANGED <<storage, registryVars, synced, hiddenSeries, call>>

\* one chart with a brush, mounted and unmounted over the session
BrushNext ==
    \/ Mount({"h1"})
    \/ Unmount({"h1"})
    \/ SyncEffect({"h1"})
    \/ OnBrushChange({"h1"})
    \/ OnReset({"h1"})
    \/ ResetTimerFires({"h1"})
    \/ OnKeyDown({"h1"})
    \/ OnTouch({"h1"})

BrushSpec == Init /\ [][BrushNext]_vars

\* first render of a chart of MaxDataLength records with no brush config,
\* with or without a syncId
MountSynced(H) ==
    \E h \in H, syncId \in Opt(SyncIds) :
        /\ ~hooks[h].mounted
        /\ hooks' = [hooks EXCEPT ![h] =
                [mounted |-> TRUE, dataLength |-> MaxDataLength, syncId |-> syncId,
                 isValid |-> validateBrushConfig(None, MaxDataLength) = None,
                 brushState |-> InitialBrushState(storage, None, MaxDataLength, syncId),
                 stateRef |-> 0, timers |-> 0, effectPending |-> TRUE]]
        /\ UNCHANGED <<storage, registryVars, synced, hiddenSeries, call>>

\* two charts on one page; React runs every scheduled effect
PairNext ==
    \/ MountSynced(Hooks)
    \/ Unmount(Hooks)
    \/ SyncEffect(Hooks)
    \/ OnBrushChange(Hooks)

PairSpec ==
    /\ Init
    /\ [][PairNext]_vars
    /\ \A h \in Hooks : WF_vars(SyncEffect({h}))

(* --------------------------- useBrush: properties ---------------------- *)

ValidRange(brushState, dataLength) ==
    /\ 0 <= brushState.dataStartIndex
    /\ brushState.dataStartIndex < brushState.dataEndIndex
    /\ brushState.dataEndIndex <= dataLength

\* C1: every brushState of a mounted useBrush with dataLength > 0 satisfies
\* 0 <= dataStartIndex < dataEndIndex <= dataLength (initially and after any
\* onBrushChange, onReset, onKeyDown, onTouch).
BrushRangeAlwaysValid ==
    \A h \in Hooks :
        (hooks[h].mounted /\ hooks[h].dataLength > 0) =>
            ValidRange(hooks[h].brushState, hooks[h].dataLength)

(* ------------------------- pure functions: calls ----------------------- *)

Categories == {"Jan", "Feb"}

\* datasets of up to MaxRows records with one categorical field
Datasets(dataKey) ==
    {<<>>} \cup UNION { [1..n -> {dataKey :> c : c \in Categories}] : n \in 1..MaxRows }

RowArgs == (-1)..(MaxRows + 1)

SyncMethods == {"index", "value"}

CallOnBrushChange ==
    /\ call = NoCall
    /\ \E startIndex \in (-2)..(MaxDataLength + 2), endIndex \in (-2)..(MaxDataLength + 2),
          dataLength \in 1..MaxDataLength :
        /\ call' = [fn |-> "onBrushChange",
                    args |-> [startIndex |-> startIndex, endIndex |-> endIndex,
                              dataLength |-> dataLength],
                    result |-> onBrushChange(startIndex, endIndex, dataLength)]
        /\ UNCHANGED <<registryVars, hookVars>>

CallFindIndexByValue ==
    /\ call = NoCall
    /\ \E data \in Datasets("month"), syncValue \in Categories \cup {"May"} :
        /\ call' = [fn |-> "findIndexByValue",
                    args |-> [data |-> data, dataKey |-> "month", syncValue |-> syncValue],
                    result |-> findIndexByValue(data, "month", syncValue)]
        /\ UNCHANGED <<registryVars, hookVars>>

CallTransformTooltipIndex ==
    /\ call = NoCall
    /\ \E sourceData \in Datasets("month"), targetData \in Datasets("period"),
          sourceIndex \in RowArgs, syncMethod \in SyncMethods :
        /\ call' = [fn |-> "transformTooltipIndex",
                    args |-> [sourceData |-> sourceData, targetData |-> targetData,
                              sourceIndex |-> sourceIndex, syncMethod |-> syncMethod],
                    result |-> transformTooltipIndex(sourceData, targetData, sourceIndex,
                                                     "month", "period", syncMethod)]
        /\ UNCHANGED <<registryVars, hookVars>>

CallTransformBrushRange ==
    /\ call = NoCall
    /\ \E sourceData \in Datasets("month"), targetData \in Datasets("period"),
          sourceStart \in RowArgs, sourceEnd \in RowArgs, syncMethod \in SyncMethods :
        /\ call' = [fn |-> "transformBrushRange",
                    args |-> [sourceData |-> sourceData, targetData |-> targetData,
                              sourceStart |-> sourceStart, sourceEnd |-> sourceEnd,
                              syncMethod |-> syncMethod],
                    result |-> transformBrushRange(sourceData, targetData, sourceStart,
                                                   sourceEnd, "month", "period", syncMethod)]
        /\ UNCHANGED <<registryVars, hookVars>>

\* a brush config declaring any of dataStartIndex, dataEndIndex, height; or none
BuildConfigs ==
    {None} \cup
    { Some(Field("dataStartIndex", s) @@ Field("dataEndIndex", e) @@ Field("height", h)) :
        s \in Opt((-2)..(MaxDataLength + 2)), e \in Opt((-2)..(MaxDataLength + 2)),
        h \in Opt({0, 30}) }

CallBuildBrushConfig ==
    /\ call = NoCall
    /\ \E config \in BuildConfigs, dataLength \in (-1)..MaxDataLength :
        /\ call' = [fn |-> "buildBrushConfig",
                    args |-> [config |-> config, dataLength |-> dataLength],
                    result |-> buildBrushConfig(config, dataLength)]
        /\ UNCHANGED <<registryVars, hookVars>>

CallFilterDataByBrushRange ==
    /\ call = NoCall
    /\ \E data \in Datasets("month"), startIndex \in RowArgs, endIndex \in RowArgs :
        /\ call' = [fn |-> "filterDataByBrushRange",
                    args |-> [data |-> data, startIndex |-> startIndex, endIndex |-> endIndex],
                    result |-> filterDataByBrushRange(data, startIndex, endIndex)]
        /\ UNCHANGED <<registryVars, hookVars>>

CallHandleBrushKeyboard ==
    /\ call = NoCall
    /\ \E key \in KeysPressed, currentStart \in IndexArgs, currentEnd \in IndexArgs,
          dataLength \in 1..MaxDataLength, stepSize \in 1..MaxStep :
        /\ call' = [fn |-> "handleBrushKeyboard",
                    args |-> [key |-> key, currentStart |-> currentStart,
                              currentEnd |-> currentEnd, dataLength |-> dataLength,
                              stepSize |-> stepSize],
                    result |-> handleBrushKeyboard(key, currentStart, currentEnd,
                                                   dataLength, stepSize)]
        /\ UNCHANGED <<registryVars, hookVars>>

\* a hook as its first render leaves it, for any declared config
MountedHooks ==
    { [mounted |-> TRUE, dataLength |-> dataLength, syncId |-> None,
       isValid |-> validateBrushConfig(config, dataLength) = None,
       brushState |-> InitialBrushState(<<>>, config, dataLength, None),
       stateRef |-> 0, timers |-> 0, effectPending |-> TRUE] :
        dataLength \in 1..MaxDataLength, config \in BrushConfigs }

CallHandleTouchEvent ==
    /\ call = NoCall
    /\ \E hook \in MountedHooks, touchX \in TouchXs, containerWidth \in 0..MaxWidth,
          isTouchStart \in BOOLEAN :
        /\ call' = [fn |-> "handleTouchEvent",
                    args |-> [hook |-> hook, touchX |-> touchX,
                              containerWidth |-> containerWidth,
                              isTouchStart |-> isTouchStart],
                    result |-> handleTouchEvent(hook, touchX, containerWidth, isTouchStart)]
        /\ UNCHANGED <<registryVars, hookVars>>

\* one call of one function on inputs drawn from the bounded sets
FnNext ==
    \/ CallOnBrushChange
    \/ CallFindIndexByValue
    \/ CallTransformTooltipIndex
    \/ CallTransformBrushRange
    \/ CallBuildBrushConfig
    \/ CallFilterDataByBrushRange
    \/ CallHandleBrushKeyboard
    \/ CallHandleTouchEvent

FnSpec == Init /\ [][FnNext]_vars

(* ----------------------- pure functions: properties -------------------- *)

\* C2: for dataLength >= 1 and any integers startIndex, endIndex,
\* onBrushChange returns startIndex in [0, dataLength - 1], endIndex in
\* [startIndex + 1, dataLength] and range = endIndex - startIndex; a valid
\* input range is returned unchanged.
OnBrushChangeAlwaysValid ==
    call.fn = "onBrushChange" =>
        LET a == call.args
            r == call.result
        IN  /\ r.startIndex \in 0..(a.dataLength - 1)
            /\ r.endIndex \in (r.startIndex + 1)..a.dataLength
            /\ r.range = r.endIndex - r.startIndex
            /\ (0 <= a.startIndex /\ a.startIndex < a.endIndex /\ a.endIndex <= a.dataLength) =>
                 (r.startIndex = a.startIndex /\ r.endIndex = a.endIndex)

\* C2 witness: an inverted range with a negative end and a start above the data
OnBrushChangeInvertedWitness ==
    /\ call.fn = "onBrushChange"
    /\ call.args.startIndex > call.args.dataLength
    /\ call.args.endIndex < 0
    /\ call.result.startIndex = call.args.dataLength - 1
    /\ call.result.endIndex = call.args.dataLength

HasMatch(data, dataKey, value) ==
    \E i \in 1..Len(data) : Get(data[i], dataKey) = Some(value)

\* the 0-based position of the first record whose field equals the value
FirstMatch(data, dataKey, value) ==
    (CHOOSE i \in 1..Len(data) :
        /\ Get(data[i], dataKey) = Some(value)
        /\ \A j \in 1..(i - 1) : Get(data[j], dataKey) # Some(value)) - 1

InRows(data, index) == index >= 0 /\ index < Len(data)

\* the source value at the index has a record in the target
Translatable(a, index) ==
    /\ InRows(a.sourceData, index)
    /\ HasMatch(a.targetData, "period", a.sourceData[index + 1].month)

\* C9: findIndexByValue returns the index of the first matching record and
\* undefined when none matches; under the 'value' policy transformTooltipIndex
\* and transformBrushRange return undefined when a source index is out of
\* bounds or a looked-up value has no record in the target.
NoMatchYieldsUndefined ==
    /\ call.fn = "findIndexByValue" =>
         call.result =
            IF HasMatch(call.args.data, "month", call.args.syncValue)
            THEN Some(FirstMatch(call.args.data, "month", call.args.syncValue))
            ELSE None
    /\ (call.fn = "transformTooltipIndex" /\ call.args.syncMethod = "value") =>
         (~Translatable(call.args, call.args.sourceIndex) => call.result = None)
    /\ (call.fn = "transformBrushRange" /\ call.args.syncMethod = "value") =>
         ((~Translatable(call.args, call.args.sourceStart)
           \/ ~Translatable(call.args, call.args.sourceEnd)) => call.result = None)

\* C10: under the 'index' policy transformBrushRange returns a source range
\* {start, end} unchanged when end <= target length and a clamped range
\* otherwise; the result always lies within the target and has start <= end.
IndexRangeFitsTarget ==
    call.fn = "transformBrushRange" =>
        LET a == call.args
        IN  (/\ a.syncMethod = "index"
             /\ 0 <= a.sourceStart
             /\ a.sourceStart < a.sourceEnd
             /\ a.sourceEnd <= Len(a.sourceData)) =>
                /\ call.result # None
                /\ a.sourceEnd <= Len(a.targetData) =>
                     call.result = Some([start |-> a.sourceStart, end |-> a.sourceEnd])
                /\ 0 <= call.result[1].start
                /\ call.result[1].start <= call.result[1].end
                /\ call.result[1].end <= Len(a.targetData)

Clamp(x, lo, hi) == Max(lo, Min(x, hi))

\* C11: buildBrushConfig throws exactly when config is missing or
\* dataLength <= 0; otherwise it returns the declared start clamped to >= 0
\* and the declared end clamped to <= dataLength when that start is below
\* that end, else the full range, so 0 <= dataStartIndex < dataEndIndex <= dataLength.
BuildBrushConfigRecovers ==
    call.fn = "buildBrushConfig" =>
        LET a == call.args
            r == call.result
        IN  /\ r.threw <=> (a.config = None \/ a.dataLength <= 0)
            /\ ~r.threw =>
                 LET clampedStart == Max(0, OrElse(Get(a.config[1], "dataStartIndex"), 0))
                     clampedEnd == Min(OrElse(Get(a.config[1], "dataEndIndex"), a.dataLength),
                                       a.dataLength)
                 IN  /\ r.value.dataStartIndex =
                            IF clampedStart < clampedEnd THEN clampedStart ELSE 0
                     /\ r.value.dataEndIndex =
                            IF clampedStart < clampedEnd THEN clampedEnd ELSE a.dataLength
                     /\ 0 <= r.value.dataStartIndex
                     /\ r.value.dataStartIndex < r.value.dataEndIndex
                     /\ r.value.dataEndIndex <= a.dataLength

\* C11 witness: an inverted declared range is answered with the full range
BuildBrushConfigInvertedWitness ==
    /\ call.fn = "buildBrushConfig"
    /\ call.args.config # None
    /\ Get(call.args.config[1], "dataStartIndex") = Some(2)
    /\ Get(call.args.config[1], "dataEndIndex") = Some(1)
    /\ call.args.dataLength = 2
    /\ ~call.result.threw
    /\ call.result.value.dataStartIndex = 0
    /\ call.result.value.dataEndIndex = 2

\* C12: filterDataByBrushRange returns the records of data at positions
\* clamp(start, 0, len) up to but excluding clamp(end, 0, len), in order; its
\* length is max(0, clampedEnd - clampedStart), empty for empty data and for
\* an empty or inverted clamped range.
FilterReturnsClampedSlice ==
    call.fn = "filterDataByBrushRange" =>
        LET data == call.args.data
            clampedStart == Clamp(call.args.startIndex, 0, Len(data))
            clampedEnd == Clamp(call.args.endIndex, 0, Len(data))
        IN  /\ Len(call.result) = Max(0, clampedEnd - clampedStart)
            /\ \A i \in 1..Len(call.result) : call.result[i] = data[clampedStart + i]

\* C12 witness: a start inside the data and an end above it give the tail, in order
FilterTailWitness ==
    /\ call.fn = "filterDataByBrushRange"
    /\ Len(call.args.data) = 3
    /\ call.args.data[2] # call.args.data[3]
    /\ call.args.startIndex = 1
    /\ call.args.endIndex > 3
    /\ call.result = <<call.args.data[2], call.args.data[3]>>

\* C13: for a valid current range and a step n >= 1, ArrowLeft and ArrowRight
\* return a range of the same width as the current one, shifted by n or by as
\* much as the data bounds allow.
KeyboardTranslatesWindow ==
    call.fn = "handleBrushKeyboard" =>
        LET a == call.args
            shift == IF a.key = "ArrowLeft"
                     THEN Min(a.stepSize, a.currentStart)
                     ELSE Min(a.stepSize, a.dataLength - a.currentEnd)
        IN  (/\ a.key \in {"ArrowLeft", "ArrowRight"}
             /\ 0 <= a.currentStart
             /\ a.currentStart < a.currentEnd
             /\ a.currentEnd <= a.dataLength) =>
                /\ call.result # None
                /\ call.result[1].endIndex - call.result[1].startIndex
                      = a.currentEnd - a.currentStart
                /\ a.key = "ArrowLeft" => call.result[1].startIndex = a.currentStart - shift
                /\ a.key = "ArrowRight" => call.result[1].endIndex = a.currentEnd + shift

\* round(clamp(x / width, 0, 1) * (dataLength - 1)), 0 when width <= 0
TouchIndex(touchX, containerWidth, dataLength) ==
    IF containerWidth <= 0 THEN 0
    ELSE RoundDiv(Clamp(touchX, 0, containerWidth) * (dataLength - 1), containerWidth)

\* C14 as stated: the touch index is round(clamp(x / width, 0, 1) * (dataLength - 1)),
\* within [0, dataLength - 1]; on a valid range a start touch makes it the
\* start edge and a move touch makes it the end edge, the other edge staying
\* where it was unless it has to move to keep the range non-empty.
TouchSetsTouchedEdge ==
    call.fn = "handleTouchEvent" =>
        LET a == call.args
            before == a.hook.brushState
            after == call.result.brushState
            index == TouchIndex(a.touchX, a.containerWidth, a.hook.dataLength)
        IN  ValidRange(before, a.hook.dataLength) =>
                /\ index \in 0..(a.hook.dataLength - 1)
                /\ a.isTouchStart =>
                     /\ after.dataStartIndex = index
                     /\ \/ after.dataEndIndex = before.dataEndIndex
                        \/ before.dataEndIndex <= index /\ after.dataEndIndex = index + 1
                /\ ~a.isTouchStart =>
                     /\ after.dataEndIndex = index
                     /\ \/ after.dataStartIndex = before.dataStartIndex
                        \/ before.dataStartIndex >= index /\ after.dataStartIndex = index - 1

\* C14 amended: the touch index is as stated; a start touch makes it the start
\* edge and keeps the end edge, cut to dataLength, unless that is not above
\* the index, where the end becomes index + 1; a move touch keeps the start
\* edge, cut to [0, dataLength - 1], and makes the end edge the larger of the
\* index and start + 1.
TouchMovesEdgeKeepingStart ==
    call.fn = "handleTouchEvent" =>
        LET a == call.args
            before == a.hook.brushState
            after == call.result.brushState
            dataLength == a.hook.dataLength
            index == TouchIndex(a.touchX, a.containerWidth, dataLength)
        IN  /\ index \in 0..(dataLength - 1)
            /\ a.isTouchStart =>
                 /\ after.dataStartIndex = index
                 /\ after.dataEndIndex = Max(index + 1, Min(before.dataEndIndex, dataLength))
            /\ ~a.isTouchStart =>
                 /\ after.dataStartIndex = Clamp(before.dataStartIndex, 0, dataLength - 1)
                 /\ after.dataEndIndex = Max(after.dataStartIndex + 1, index)
            /\ after.isEnabled = before.isEnabled

\* C14 witness: a move touch at or before the start edge of a valid range
\* leaves the start and puts the end one past it
TouchMoveBeforeStartWitness ==
    /\ call.fn = "handleTouchEvent"
    /\ ~call.args.isTouchStart
    /\ call.args.containerWidth > 0
    /\ ValidRange(call.args.hook.brushState, call.args.hook.dataLength)
    /\ call.args.hook.brushState.dataStartIndex = 1
    /\ TouchIndex(call.args.touchX, call.args.containerWidth, call.args.hook.dataLength) = 0
    /\ call.result.brushState.dataStartIndex = 1
    /\ call.result.brushState.dataEndIndex = 2

\* two mounted charts share a syncId and show different ranges
Diverged(h, g) ==
    /\ hooks[h].mounted /\ hooks[g].mounted
    /\ hooks[h].syncId # None
    /\ hooks[h].syncId = hooks[g].syncId
    /\ \/ hooks[h].brushState.dataStartIndex # hooks[g].brushState.dataStartIndex
       \/ hooks[h].brushState.dataEndIndex # hooks[g].brushState.dataEndIndex

\* a step of charts without a syncId leaves the shared brush state as it is
UnsyncedLeaveStorage ==
    (\A h \in Hooks : hooks[h].mounted => hooks[h].syncId = None) => storage' = storage

\* C15: when two useBrush instances are mounted with the same syncId, a range
\* change made through one eventually becomes the brushState of the other, so
\* the two do not stay on different ranges; an instance with no syncId neither
\* writes nor reads shared brush state.
SyncedRangesConverge ==
    /\ \A h \in Hooks, g \in Hooks : []<>(~Diverged(h, g))
    /\ [][UnsyncedLeaveStorage]_vars

(* ------------------------- parseConfig: properties --------------------- *)

\* parseConfig has been applied to its own result
Reparsed == call.fn = "parseConfig" /\ call.first # None

\* C16: parseConfig is idempotent: on the canonical configuration of a
\* successful call it succeeds again and returns a configuration equal to it
\* field for field
ParseConfigIdempotent ==
    Reparsed => ~call.result.threw /\ call.result.value = call.first[1].value

\* a reparse of a configuration that named its data by datasetId, left
\* chartType to inference and gave yAxis
ReparsedDatasetIdWitness ==
    /\ Reparsed
    /\ call.raw.data.kind = "dataset"
    /\ "chartType" \notin DOMAIN call.raw
    /\ "yAxis" \in DOMAIN call.raw
    /\ call.result = call.first[1]
    /\ call.result.value.chartType = "radar"
    /\ call.result.value.data = ArrayData(mockDatabase["sales-2024"])

\* the kinds of chart
ChartTypes ==
    {"bar", "line", "area", "pie", "composed", "scatter", "radar", "funnel", "sankey", "treemap"}

\* the failures of a raw configuration: data neither an array nor a dataset
\* reference, an unknown datasetId, an empty dataset, a first record that is
\* no object or has no fields, an x-axis that is no field, or no series
\* declared and no other field numeric in any record
ListedFailure(config) ==
    LET given == Get(config, "data")
        rows == IF given[1].kind = "array" THEN given[1].rows
                ELSE mockDatabase[given[1].datasetId]
        fields == ObjectKeys(rows[1])
        x == OrElse(Get(config, "xAxis"), fields[1])
        declared == OrElse(Get(config, "series"), <<>>)
    IN  \/ given = None
        \/ given[1].kind = "invalid"
        \/ given[1].kind = "dataset" /\ given[1].datasetId \notin DOMAIN mockDatabase
        \/ rows = <<>>
        \/ rows[1] = NullRow
        \/ fields = <<>>
        \/ ~Includes(fields, x)
        \/ /\ declared = <<>>
           /\ \A k \in 1..Len(fields), i \in Objects(rows) :
                fields[k] # x => ~IsNumeric(rows[i], fields[k])

\* C17: parseConfig throws exactly when data is neither an array nor an
\* object with datasetId, the datasetId is unknown, the dataset is empty, the
\* first record is not an object or has no fields, the x-axis is not a field
\* of the data, or no series is declared and no non-x-axis field is numeric
\* in any record; in every other case it returns a configuration with a
\* concrete chartType, an xAxis that is a field of the data and a non-empty
\* series list.
ParseConfigThrowsExactlyWhenListed ==
    call.fn = "parseConfig" =>
        LET config == call.args.config
            parsed == call.result.value
        IN  /\ call.result.threw <=> ListedFailure(config)
            /\ ~call.result.threw =>
                    /\ parsed.chartType \in ChartTypes
                    /\ Includes(ObjectKeys(parsed.data.rows[1]), parsed.xAxis)
                    /\ Len(parsed.series) > 0

\* C18: the per-series type map is populated only for the composed kind: a
\* composed chart has an entry for every series, a declared entry kept, else
\* "bar" for the first series and "line" for every later one; for every
\* other resolved chartType, declared or inferred, seriesConfig is empty.
SeriesConfigOnlyForComposed ==
    (call.fn = "parseConfig" /\ ~call.result.threw) =>
        LET config == call.args.config
            parsed == call.result.value
            declared == OrElse(Get(config, "seriesConfig"), <<>>)
        IN  IF parsed.chartType = "composed"
            THEN \A i \in 1..Len(parsed.series) :
                    /\ parsed.series[i] \in DOMAIN parsed.seriesConfig
                    /\ parsed.seriesConfig[parsed.series[i]] =
                            IF parsed.series[i] \in DOMAIN declared
                            THEN declared[parsed.series[i]]
                            ELSE IF i = 1 THEN "bar" ELSE "line"
            ELSE parsed.seriesConfig = <<>>

\* the fields of a raw configuration that parseConfig resolves itself
ResolvedFields ==
    {"chartType", "title", "data", "xAxis", "series", "seriesConfig", "theme", "seriesYAxisMap"}

\* C19: every optional field of the raw configuration that parseConfig does
\* not itself resolve (styling, brush, sizing, syncId and syncMethod, and
\* fields it does not recognise among them) has the same value in the
\* canonical configuration, and every such field absent from the raw
\* configuration is absent from the canonical one.
OptionalFieldsPassThrough ==
    (call.fn = "parseConfig" /\ ~call.result.threw) =>
        LET config == call.args.config
            parsed == call.result.value
        IN  /\ \A f \in DOMAIN config \ ResolvedFields :
                    f \in DOMAIN parsed /\ parsed[f] = config[f]
            /\ \A f \in DOMAIN parsed \ ResolvedFields : f \in DOMAIN config

\* every record of the rows is an object with these fields
EveryRecordHas(rows, keys) ==
    \A i \in 1..Len(rows) : rows[i] # NullRow /\ HasAll(rows[i], keys)

\* every series is numeric in every record
EverySeriesNumeric(rows, series) ==
    \A i \in 1..Len(rows), k \in 1..Len(series) :
        rows[i] # NullRow /\ IsNumeric(rows[i], series[k])

StructuralPattern(rows) ==
    \/ EveryRecordHas(rows, {"source", "target", "value"})
    \/ HasAll(rows[1], {"children", "name"})
    \/ /\ EveryRecordHas(rows, {"name", "value"})
       /\ \A i \in 1..Len(rows) : rows[i].value.type = "number"

\* the values of the series are positive and at least 60% of the pairs of
\* consecutive values are non-increasing
MostlyNonIncreasing(rows, key) ==
    LET value(i) == NumberOrZero(rows[i], key)
        pairs == 2..Len(rows)
        nonIncreasing == {i \in pairs : value(i) <= value(i - 1)}
    IN  /\ \A i \in 1..Len(rows) : value(i) > 0
        /\ 10 * Cardinality(nonIncreasing) >= 6 * Cardinality(pairs)

\* C21: for a dataset with exactly one series and no sankey or treemap
\* pattern the inferred chart type is "funnel" exactly when there are 2 to 15
\* records, the series values are positive and at least 60% of the
\* consecutive pairs are non-increasing; otherwise it is "pie" for 3 to 20
\* records and "bar" for any other number of records.
FunnelPieBarRule ==
    (/\ call.fn = "parseConfig"
     /\ ~call.result.threw
     /\ "chartType" \notin DOMAIN call.args.config
     /\ Len(call.result.value.series) = 1
     /\ ~StructuralPattern(call.result.value.data.rows)) =>
        LET rows == call.result.value.data.rows
            key == call.result.value.series[1]
            funnel == /\ Len(rows) >= 2 /\ Len(rows) <= 15
                      /\ MostlyNonIncreasing(rows, key)
        IN  call.result.value.chartType =
                IF funnel THEN "funnel"
                ELSE IF Len(rows) >= 3 /\ Len(rows) <= 20 THEN "pie"
                ELSE "bar"

(* ---------------------------- referenceConfig -------------------------- *)

\* JS numbers are fractions in lowest terms with a positive denominator;
\* NaN is a value of its own
RECURSIVE Gcd(_, _)
Gcd(a, b) == IF b = 0 THEN a ELSE Gcd(b, a % b)

Abs(n) == IF n < 0 THEN -n ELSE n

Ratio(n, d) ==
    LET g == Gcd(Abs(n), d)
    IN  [n |-> n \div g, d |-> d \div g]

NaN == [nan |-> TRUE]

RatAdd(a, b) == Ratio(a.n * b.d + b.n * a.d, a.d * b.d)
RatLess(a, b) == a.n * b.d < b.n * a.d

\* JS values: numbers, strings as sequences of characters, arrays
NumberValue(n) == [type |-> "number", value |-> Ratio(n, 1)]
StringValue(chars) == [type |-> "string", chars |-> chars]
ArrayValue(items) == [type |-> "object", items |-> items]

Digits == <<"0", "1", "2", "3", "4", "5", "6", "7", "8", "9">>
UpperCase == <<"A", "D", "E", "G", "I", "M", "N", "R", "U", "V", "X">>
LowerCase == <<"a", "d", "e", "g", "i", "m", "n", "r", "u", "v", "x">>

IndexOf(seq, x) == IF Includes(seq, x) THEN CHOOSE i \in 1..Len(seq) : seq[i] = x ELSE 0

\* the characters as they are, upper case kept
ToLowerCase_caseKept(chars) == chars

\* value.toLowerCase()
ToLowerCase(chars) ==
    [i \in 1..Len(chars) |->
        IF Includes(UpperCase, chars[i]) THEN LowerCase[IndexOf(UpperCase, chars[i])]
        ELSE chars[i]]

\* value.endsWith("%") and value.slice(0, -1)
EndsWithPercent(chars) == Len(chars) > 0 /\ chars[Len(chars)] = "%"
SliceLast(chars) == SubSeq(chars, 1, Len(chars) - 1)

\* the number of leading characters that are digits
RECURSIVE DigitPrefix(_)
DigitPrefix(chars) ==
    IF Len(chars) > 0 /\ Includes(Digits, Head(chars)) THEN 1 + DigitPrefix(Tail(chars)) ELSE 0

RECURSIVE DigitsValue(_)
DigitsValue(chars) ==
    IF Len(chars) = 0 THEN 0
    ELSE 10 * DigitsValue(SubSeq(chars, 1, Len(chars) - 1)) + IndexOf(Digits, chars[Len(chars)]) - 1

RECURSIVE Pow10(_)
Pow10(k) == IF k = 0 THEN 1 ELSE 10 * Pow10(k - 1)

RECURSIVE TrimStart(_)
TrimStart(chars) ==
    IF Len(chars) > 0 /\ Head(chars) = " " THEN TrimStart(Tail(chars)) ELSE chars

\* the number read from a sign, the digits before the point and those after
\* it; NaN when no digit was read
Decimal(sign, whole, fraction) ==
    IF Len(whole) = 0 /\ Len(fraction) = 0 THEN NaN
    ELSE Ratio(sign * (DigitsValue(whole) * Pow10(Len(fraction)) + DigitsValue(fraction)),
               Pow10(Len(fraction)))

\* the digits that follow a point at the head of the characters
FractionDigits(rest) ==
    IF Len(rest) > 0 /\ Head(rest) = "." THEN SubSeq(rest, 2, 1 + DigitPrefix(Tail(rest)))
    ELSE <<>>

ParseUnsigned(sign, body, wholeLength) ==
    Decimal(sign, SubSeq(body, 1, wholeLength),
            FractionDigits(SubSeq(body, wholeLength + 1, Len(body))))

ParseSigned(sign, body) == ParseUnsigned(sign, body, DigitPrefix(body))

ParseTrimmed(trimmed) ==
    IF Len(trimmed) > 0 /\ Head(trimmed) \in {"-", "+"}
    THEN ParseSigned(IF Head(trimmed) = "-" THEN -1 ELSE 1, Tail(trimmed))
    ELSE ParseSigned(1, trimmed)

\* parseFloat: leading blanks, a sign, digits and a fraction are read, what
\* follows is ignored
ParseFloat(chars) == ParseTrimmed(TrimStart(chars))

RECURSIVE Flatten(_)
Flatten(seqs) == IF Len(seqs) = 0 THEN <<>> ELSE Head(seqs) \o Flatten(Tail(seqs))

\* typeof value === "number" ? value : parseFloat(String(value)) for the
\* property of an item; a missing property reads as "undefined"
NumValue(item, key) ==
    IF key \notin DOMAIN item THEN NaN
    ELSE IF item[key].type = "number" THEN item[key].value
    ELSE IF item[key].type = "string" THEN ParseFloat(item[key].chars)
    ELSE NaN

\* values.push(numValue) unless it is NaN
Pushed(numValue) == IF numValue # NaN THEN <<numValue>> ELSE <<>>

\* the values of the properties of the item that are numbers
NumberProperties(item, keys) == [i \in 1..Len(keys) |-> item[keys[i]].value]

extractNumericValues(data, dataKey) ==
    Flatten([i \in 1..Len(data) |->
        IF data[i] = NullRow THEN <<>>
        ELSE IF Truthy(dataKey) THEN Pushed(NumValue(data[i], dataKey[1]))
        ELSE NumberProperties(data[i],
                SelectSeq(ObjectKeys(data[i]), LAMBDA k : data[i][k].type = "number"))])

RECURSIVE RatSum(_)
RatSum(values) == IF Len(values) = 0 THEN Ratio(0, 1) ELSE RatAdd(Head(values), RatSum(Tail(values)))

RatDiv(a, k) == Ratio(a.n, a.d * k)

calculateAverage(values) ==
    IF Len(values) = 0 THEN Ratio(0, 1) ELSE RatDiv(RatSum(values), Len(values))

\* the value put in order among those already in ascending order
RECURSIVE Insert(_, _)
Insert(sorted, v) ==
    IF Len(sorted) = 0 THEN <<v>>
    ELSE IF RatLess(v, Head(sorted)) THEN <<v>> \o sorted
    ELSE <<Head(sorted)>> \o Insert(Tail(sorted), v)

\* values.sort((a, b) => a - b)
RECURSIVE SortAscending(_)
SortAscending(values) ==
    IF Len(values) = 0 THEN <<>>
    ELSE Insert(SortAscending(SubSeq(values, 1, Len(values) - 1)), values[Len(values)])

MedianOfSorted(sorted, mid) ==
    IF Len(sorted) = 0 THEN Ratio(0, 1)
    ELSE IF Len(sorted) % 2 = 0 THEN RatDiv(RatAdd(sorted[mid], sorted[mid + 1]), 2)
    ELSE sorted[mid + 1]

\* the median of the values as they are given, without sorting
calculateMedian_unsorted(values) ==
    [value |-> MedianOfSorted(values, Len(values) \div 2), values |-> values]

\* the median, and the caller's array after the call: a copy is sorted
calculateMedian(values) ==
    [value |-> MedianOfSorted(SortAscending(values), Len(values) \div 2), values |-> values]

MathMax(values) == CHOOSE v \in {values[i] : i \in 1..Len(values)} :
                        \A i \in 1..Len(values) : ~RatLess(v, values[i])
MathMin(values) == CHOOSE v \in {values[i] : i \in 1..Len(values)} :
                        \A i \in 1..Len(values) : ~RatLess(values[i], v)

\* parseFloat(value) when it is not NaN, else undefined
BareNumber(numValue) == IF numValue # NaN THEN Some(numValue) ELSE None

\* the switch on the lower-cased string, for a column that is not empty
ResolveKeyword(chars, lowerValue, numericValues) ==
    IF lowerValue \in {<<"a", "v", "e", "r", "a", "g", "e">>, <<"m", "e", "a", "n">>}
    THEN Some(calculateAverage(numericValues))
    ELSE IF lowerValue \in {<<"m", "a", "x">>, <<"m", "a", "x", "i", "m", "u", "m">>}
    THEN Some(MathMax(numericValues))
    ELSE IF lowerValue \in {<<"m", "i", "n">>, <<"m", "i", "n", "i", "m", "u", "m">>}
    THEN Some(MathMin(numericValues))
    ELSE IF lowerValue = <<"m", "e", "d", "i", "a", "n">>
    THEN Some(calculateMedian(numericValues).value)
    ELSE BareNumber(ParseFloat(chars))

\* the percentage of the largest value of the column
ResolvePercentage(percentage, numericValues, maxValue) ==
    IF percentage = NaN THEN None
    ELSE IF Len(numericValues) = 0 THEN None
    ELSE Some(Ratio(maxValue[1].n * percentage.n, maxValue[1].d * percentage.d * 100))

\* a string value, given the numeric values of the column
ResolveString(chars, numericValues) ==
    IF EndsWithPercent(chars)
    THEN ResolvePercentage(ParseFloat(SliceLast(chars)), numericValues,
                           IF Len(numericValues) = 0 THEN None ELSE Some(MathMax(numericValues)))
    ELSE IF Len(numericValues) = 0 THEN None
    ELSE ResolveKeyword(chars, ToLowerCase(chars), numericValues)

\* the number a reference value stands for, or None for undefined
parseReferenceValue(value, data, dataKey) ==
    IF value = None THEN None
    ELSE IF value[1].type = "number" THEN Some(value[1].value)
    ELSE IF value[1].type # "string" THEN None
    ELSE ResolveString(value[1].chars, extractNumericValues(data, dataKey))

\* the result for a string value that was parsed
ParsedResult(parsed) ==
    IF parsed = None THEN [valid |-> FALSE, error |-> "Unable to parse reference value"]
    ELSE [valid |-> TRUE, normalizedValue |-> parsed[1]]

validateReferenceValue(value, data, dataKey) ==
    IF value = None THEN [valid |-> FALSE, error |-> "Reference value is undefined"]
    ELSE IF value[1].type = "number" THEN [valid |-> TRUE, normalizedValue |-> value[1].value]
    ELSE IF value[1].type # "string"
    THEN [valid |-> FALSE, error |-> "Invalid reference value type"]
    ELSE ParsedResult(parseReferenceValue(value, data, dataKey))

\* createReferenceArea(yAxisStart, yAxisEnd, label) with no style
createReferenceArea(yAxisStart, yAxisEnd, label) ==
    [type |-> "area", value |-> ArrayValue(<<yAxisStart, yAxisEnd>>), fill |-> "#ccc",
     fillOpacity |-> Ratio(1, 10), labelPosition |-> "top"] @@ Field("label", label)

\* { ...element, value: parsedValue }: an undefined value is left out
Normalized(element, parsedValue) ==
    Remove(element, "value")
    @@ (IF parsedValue = None THEN <<>>
        ELSE "value" :> [type |-> "number", value |-> parsedValue[1]])

buildReferenceElements(elements, data, dataKey) ==
    IF elements = None THEN <<>>
    ELSE [i \in 1..Len(elements[1]) |->
            Normalized(elements[1][i],
                       parseReferenceValue(Get(elements[1][i], "value"), data, dataKey))]

ValidPositions == {"top", "bottom", "left", "right", "inside", "outside", "center"}

ValidLabelPositions ==
    {"top", "bottom", "left", "right", "inside", "outside", "center", "insideTopRight",
     "insideTopLeft", "insideBottomRight", "insideBottomLeft"}

\* the error of the value of an element, given its validation
ValueErrors(element, i, validation) ==
    IF "value" \notin DOMAIN element THEN <<[index |-> i, error |-> "missing value"]>>
    ELSE IF ~validation.valid THEN <<[index |-> i, error |-> validation.error]>>
    ELSE <<>>

\* the errors of the type and the styling of an element
StyleErrors(element, i, fillOpacity, position, labelPosition) ==
    (IF element.type \notin {"line", "area"} THEN <<[index |-> i, error |-> "invalid type"]>>
     ELSE <<>>)
    \o (IF fillOpacity # None
           /\ (RatLess(fillOpacity[1], Ratio(0, 1)) \/ RatLess(Ratio(1, 1), fillOpacity[1]))
        THEN <<[index |-> i, error |-> "fillOpacity must be between 0 and 1"]>>
        ELSE <<>>)
    \o (IF Truthy(position) /\ position[1] \notin ValidPositions
        THEN <<[index |-> i, error |-> "invalid position"]>>
        ELSE <<>>)
    \o (IF Truthy(labelPosition) /\ labelPosition[1] \notin ValidLabelPositions
        THEN <<[index |-> i, error |-> "invalid labelPosition"]>>
        ELSE <<>>)

\* the errors of one element, each with the element's index
ElementErrors(element, i, data, dataKey) ==
    ValueErrors(element, i, validateReferenceValue(Get(element, "value"), data, dataKey))
    \o StyleErrors(element, i, Get(element, "fillOpacity"), Get(element, "position"),
                   Get(element, "labelPosition"))

\* whether there is no error, and the errors
Validity(errors) == [valid |-> Len(errors) = 0, errors |-> errors]

validateReferenceElements(elements, data, dataKey) ==
    IF elements = None THEN Validity(<<>>)
    ELSE Validity(Flatten([i \in 1..Len(elements[1]) |->
                    ElementErrors(elements[1][i], i - 1, data, dataKey)]))

(* ------------------------- referenceConfig: calls ---------------------- *)

\* reference values: numbers, statistic keywords in either case, percentages,
\* bare numbers, other strings, and a range
Expressions ==
    { NumberValue(5),
      StringValue(<<"m", "a", "x">>), StringValue(<<"M", "A", "X">>),
      StringValue(<<"M", "a", "x", "i", "m", "u", "m">>),
      StringValue(<<"m", "i", "n">>), StringValue(<<"M", "i", "n", "i", "m", "u", "m">>),
      StringValue(<<"a", "v", "e", "r", "a", "g", "e">>), StringValue(<<"M", "E", "A", "N">>),
      StringValue(<<"m", "e", "d", "i", "a", "n">>), StringValue(<<"M", "e", "d", "i", "a", "n">>),
      StringValue(<<"5", "0", "%">>), StringValue(<<"x", "%">>), StringValue(<<"%">>),
      StringValue(<<"2", "5">>), StringValue(<<"2", ".", "5">>), StringValue(<<"-", "3">>),
      StringValue(<<"a", "x">>), StringValue(<<>>),
      ArrayValue(<<NumberValue(1), NumberValue(3)>>) }

\* data items: without the field, with a number, with a string that parses
\* or does not parse as a number, with a second numeric field, and null
RefItems ==
    { [month |-> StringValue(<<"J", "a", "n">>)],
      [sales |-> NumberValue(1)],
      [sales |-> NumberValue(2)],
      [sales |-> NumberValue(4), revenue |-> NumberValue(7)],
      [sales |-> StringValue(<<"3", "a">>)],
      [sales |-> StringValue(<<"n", "a">>)],
      NullRow }

RefDatasets == {<<>>} \cup UNION { [1..n -> RefItems] : n \in 1..MaxRows }

DataKeys == Opt({"sales", ""})

CallParseReferenceValue ==
    /\ call = NoCall
    /\ \E value \in Opt(Expressions), data \in RefDatasets, dataKey \in DataKeys :
        /\ call' = [fn |-> "parseReferenceValue",
                    args |-> [value |-> value, data |-> data, dataKey |-> dataKey],
                    result |-> parseReferenceValue(value, data, dataKey)]
        /\ UNCHANGED <<registryVars, hookVars>>

MedianInputs ==
    {<<>>} \cup UNION { [1..n -> {Ratio(1, 1), Ratio(2, 1), Ratio(5, 2), Ratio(4, 1)}] :
                        n \in 1..MaxValues }

CallCalculateMedian ==
    /\ call = NoCall
    /\ \E values \in MedianInputs :
        /\ call' = [fn |-> "calculateMedian", args |-> [values |-> values],
                    result |-> calculateMedian(values)]
        /\ UNCHANGED <<registryVars, hookVars>>

\* reference elements: lines with a number, a keyword, an unknown word or no
\* value, areas with a range as createReferenceArea makes them
ElementShapes ==
    { [type |-> "line", value |-> NumberValue(5)],
      [type |-> "line", value |-> StringValue(<<"m", "a", "x">>), label |-> "Max"],
      [type |-> "line", value |-> StringValue(<<"a", "x">>)],
      [type |-> "line"],
      [type |-> "band", value |-> NumberValue(5), fillOpacity |-> Ratio(3, 2),
       position |-> "middle", labelPosition |-> "above"],
      createReferenceArea(NumberValue(1), NumberValue(3), Some("Target Range")),
      createReferenceArea(StringValue(<<"m", "i", "n">>), StringValue(<<"5", "0", "%">>), None),
      [type |-> "area", value |-> ArrayValue(<<NumberValue(1), NumberValue(3)>>),
       label |-> "Target Range"] }

ElementLists == {<<>>} \cup UNION { [1..n -> ElementShapes] : n \in 1..MaxElements }

ElementData ==
    { <<>>,
      <<[sales |-> NumberValue(1)], [sales |-> NumberValue(4), revenue |-> NumberValue(7)]>> }

CallBuildReferenceElements ==
    /\ call = NoCall
    /\ \E elements \in Opt(ElementLists), data \in ElementData, dataKey \in DataKeys :
        /\ call' = [fn |-> "buildReferenceElements",
                    args |-> [elements |-> elements, data |-> data, dataKey |-> dataKey],
                    result |-> buildReferenceElements(elements, data, dataKey)]
        /\ UNCHANGED <<registryVars, hookVars>>

CallValidateReferenceElements ==
    /\ call = NoCall
    /\ \E elements \in Opt(ElementLists), data \in ElementData, dataKey \in DataKeys :
        /\ call' = [fn |-> "validateReferenceElements",
                    args |-> [elements |-> elements, data |-> data, dataKey |-> dataKey],
                    result |-> validateReferenceElements(elements, data, dataKey)]
        /\ UNCHANGED <<registryVars, hookVars>>

RefNext ==
    \/ CallParseReferenceValue
    \/ CallCalculateMedian
    \/ CallBuildReferenceElements
    \/ CallValidateReferenceElements

RefSpec == Init /\ [][RefNext]_vars

(* ----------------------- referenceConfig: properties ------------------- *)

\* spellings of the statistic keywords
AverageWords == {<<"a", "v", "e", "r", "a", "g", "e">>, <<"M", "E", "A", "N">>}
MaxWords == {<<"m", "a", "x">>, <<"M", "A", "X">>, <<"M", "a", "x", "i", "m", "u", "m">>}
MinWords == {<<"m", "i", "n">>, <<"M", "i", "n", "i", "m", "u", "m">>}
MedianWords == {<<"m", "e", "d", "i", "a", "n">>, <<"M", "e", "d", "i", "a", "n">>}

\* strings that are numbers and nothing else, and the numbers
BareNumbers ==
    (<<"2", "5">> :> Ratio(25, 1)) @@ (<<"2", ".", "5">> :> Ratio(5, 2))
    @@ (<<"-", "3">> :> Ratio(-3, 1))

RatLeq(a, b) == a.n * b.d <= b.n * a.d

\* v is the largest, or the smallest, value of the column
IsMaximum(v, column) ==
    (\E i \in 1..Len(column) : column[i] = v) /\ \A i \in 1..Len(column) : RatLeq(column[i], v)
IsMinimum(v, column) ==
    (\E i \in 1..Len(column) : column[i] = v) /\ \A i \in 1..Len(column) : RatLeq(v, column[i])

\* v times the number of values is their sum
IsMean(v, column) ==
    LET sum == RatSum(column)
    IN  v.n * Len(column) * sum.d = sum.n * v.d

\* parseReferenceValue was called with a string
StringCall == /\ call.fn = "parseReferenceValue"
              /\ call.args.value # None
              /\ call.args.value[1].type = "string"

BareNumberForEveryDataset ==
    (call.fn = "parseReferenceValue" /\ call.args.value # None) =>
        LET value == call.args.value[1]
        IN  /\ value.type = "number" => call.result = Some(value.value)
            /\ (value.type = "string" /\ value.chars \in DOMAIN BareNumbers) =>
                    call.result = Some(BareNumbers[value.chars])
            /\ (value.type = "string" /\ call.result = None) =>
                    value.chars \notin DOMAIN BareNumbers

\* the value is the range [a, b] and both bounds resolve on the data
ResolvableRange(element, data, dataKey) ==
    /\ "value" \in DOMAIN element
    /\ element.value.type = "object"
    /\ \A k \in 1..2 : parseReferenceValue(Some(element.value.items[k]), data, dataKey) # None

\* C24: buildReferenceElements resolves an area element whose value is a
\* range [a, b] to the two numbers a and b resolve to, the resolved value
\* being present whenever both bounds resolve, and validateReferenceElements
\* reports no error of the value for such an element.
AreaRangeResolved ==
    /\ call.fn = "buildReferenceElements" /\ call.args.elements # None =>
        \A i \in 1..Len(call.args.elements[1]) :
            LET element == call.args.elements[1][i]
                built == call.result[i]
            IN  ResolvableRange(element, call.args.data, call.args.dataKey) =>
                    /\ "value" \in DOMAIN built
                    /\ built.value.type = "object"
                    /\ \A k \in 1..2 :
                        Some(built.value.items[k].value) =
                            parseReferenceValue(Some(element.value.items[k]),
                                                call.args.data, call.args.dataKey)
    /\ call.fn = "validateReferenceElements" /\ call.args.elements # None =>
        \A i \in 1..Len(call.args.elements[1]) :
            ResolvableRange(call.args.elements[1][i], call.args.data, call.args.dataKey) =>
                \A e \in 1..Len(call.result.errors) :
                    call.result.errors[e].index = i - 1 =>
                        call.result.errors[e].error \in
                            {"invalid type", "fillOpacity must be between 0 and 1",
                             "invalid position", "invalid labelPosition"}

Below(values, m) == Cardinality({i \in 1..Len(values) : RatLess(values[i], m)})
Above(values, m) == Cardinality({i \in 1..Len(values) : RatLess(m, values[i])})

\* m is the median of the values: 0 for none, the middle value in ascending
\* order for an odd number, the mean of the two middle values for an even one
IsMedian(m, values) ==
    LET n == Len(values)
        half == n \div 2
        among == {values[i] : i \in 1..n}
    IN  IF n = 0 THEN m = Ratio(0, 1)
        ELSE IF n % 2 = 1
        THEN m \in among /\ Below(values, m) <= half /\ Above(values, m) <= half
        ELSE \E a \in among, b \in among :
                /\ Below(values, a) <= half - 1 /\ Above(values, a) <= half
                /\ Below(values, b) <= half /\ Above(values, b) <= half - 1
                /\ m = RatDiv(RatAdd(a, b), 2)

\* calculateMedian returns the median, the same for every order of the
\* values, and leaves the caller's array as it was
MedianContract ==
    call.fn = "calculateMedian" =>
        LET values == call.args.values
        IN  /\ IsMedian(call.result.value, values)
            /\ \A p \in Permutations(1..Len(values)) :
                    calculateMedian([i \in 1..Len(values) |-> values[p[i]]]).value
                        = call.result.value
            /\ call.result.values = values

EffectScheduled(h) ==
    hooks[h].mounted /\ hooks[h].syncId # None /\ hooks[h].effectPending

\* C26: with a syncId the synchronisation effect of useBrush quiesces: after
\* mount and after each brush change it causes finitely many setBrushState
\* updates, so a scheduled effect is followed by a state in which it is no
\* longer scheduled.
SyncEffectQuiesces ==
    \A h \in Hooks : EffectScheduled(h) ~> ~EffectScheduled(h)

\* two charts on one page that can be reset; every scheduled effect runs and
\* every reset timer fires
ResetNext ==
    \/ MountSynced(Hooks)
    \/ Unmount(Hooks)
    \/ SyncEffect(Hooks)
    \/ OnBrushChange(Hooks)
    \/ OnReset(Hooks)
    \/ ResetTimerFires(Hooks)

ResetSpec ==
    /\ Init
    /\ [][ResetNext]_vars
    /\ \A h \in Hooks : WF_vars(SyncEffect({h})) /\ WF_vars(ResetTimerFires({h}))

Resetting(h) == hooks[h].brushState.isResetting

\* C27: the resetting flag of useBrush is transient: every state in which
\* isResetting is true is followed by one in which it is false, the reset
\* timer being fired, however the flag became true (onReset, or a state
\* recovered through getSyncedBrushState), and while it is true the range
\* is the full range [0, dataLength).
ResettingIsTransient ==
    /\ \A h \in Hooks : Resetting(h) ~> ~Resetting(h)
    /\ [](\A h \in Hooks : Resetting(h) =>
            /\ hooks[h].brushState.dataStartIndex = 0
            /\ hooks[h].brushState.dataEndIndex = hooks[h].dataLength)

(* ------------- useSyncedTooltip / useSyncedBrush: actions --------------- *)

SyncedKinds == {"tooltip", "brush"}

\* first render: useState(getActiveSynced...(syncState, syncId)) reads the
\* registry; the effect has not run yet
UseSynced(S, K) ==
    /\ lastOp = Idle
    /\ \E s \in S, kind \in SyncedKinds, k \in K :
        /\ ~synced[s].mounted
        /\ synced' = [synced EXCEPT ![s] =
                [mounted |-> TRUE, kind |-> kind, syncId |-> k,
                 value |-> getActiveSynced(kind, Registry, k), listening |-> None]]
    /\ UNCHANGED <<registryVars, storage, hooks, hiddenSeries, call>>

\* a later render with another syncId: useState keeps its cell
RenderSynced(S, K) ==
    /\ lastOp = Idle
    /\ \E s \in S, k \in K :
        /\ synced[s].mounted
        /\ k # synced[s].syncId
        /\ synced' = [synced EXCEPT ![s].syncId = k]
    /\ UNCHANGED <<registryVars, storage, hooks, hiddenSeries, call>>

\* the cleanup of the last effect: unregisterSyncListener under the key it used
Cleanup(st, s) ==
    IF synced[s].listening = None
    THEN st
    ELSE unregisterSyncListener(st, synced[s].listening[1], s)

\* the effect after a commit whose [syncState, syncId] changed: the old
\* cleanup, then registerSyncListener under the rendered syncId
SyncedEffect(S) ==
    /\ lastOp = Idle
    /\ \E s \in S :
        /\ synced[s].mounted
        /\ synced[s].listening # Some(synced[s].syncId)
        /\ listeners' = registerSyncListener(Cleanup(Registry, s), synced[s].syncId, s).listeners
        /\ synced' = [synced EXCEPT ![s].listening = Some(synced[s].syncId)]
    /\ UNCHANGED <<tooltips, brushes, lastOp, storage, hooks, hiddenSeries, call>>

\* unmount runs the cleanup
UnmountSynced(S) ==
    /\ lastOp = Idle
    /\ \E s \in S :
        /\ synced[s].mounted
        /\ listeners' = Cleanup(Registry, s).listeners
        /\ synced' = [synced EXCEPT ![s] = NotRendered]
    /\ UNCHANGED <<tooltips, brushes, lastOp, storage, hooks, hiddenSeries, call>>

\* tooltips that say whether they are active
ActiveTooltipInputs == { t \in TooltipInputs : "active" \in DOMAIN t }

MirrorNext ==
    \/ UseSynced(SyncedHooks, Keys)
    \/ RenderSynced(SyncedHooks, Keys)
    \/ SyncedEffect(SyncedHooks)
    \/ UnmountSynced(SyncedHooks)
    \/ HandleSyncedTooltip(Keys, ActiveTooltipInputs)
    \/ ClearSyncedTooltip(Keys)
    \/ HandleSyncedBrush(Keys, BrushInputs)
    \/ ClearSyncedBrush(Keys)
    \/ Return

MirrorSpec == Init /\ [][MirrorNext]_vars

\* the effects of the last render have run and no registry call is under way
Settled(s) ==
    /\ lastOp = Idle
    /\ synced[s].mounted
    /\ synced[s].listening = Some(synced[s].syncId)

\* C28: once its effects and all notifications have run, the value a
\* useSyncedTooltip / useSyncedBrush instance returns equals
\* getActiveSyncedTooltip / getActiveSyncedBrush of the registry for the
\* syncId it was last rendered with
SyncedHookMirrorsRegistry ==
    \A s \in SyncedHooks :
        Settled(s) => synced[s].value = getActiveSynced(synced[s].kind, Registry, synced[s].syncId)

\* the listener of an instance is registered under the key
\* of its last effect and under no other, and not at all after unmount
ListenerOnlyUnderItsKey ==
    \A s \in SyncedHooks, k \in DOMAIN listeners :
        (\E i \in 1..Len(listeners[k]) : listeners[k][i] = s) => synced[s].listening = Some(k)

(* ---------------- brushConfig: validation and building ------------------ *)

\* the indices a config declares, 0 and the data length where undeclared
DeclaredRange(config, dataLength) ==
    [dataStartIndex |-> OrElse(Get(config, "dataStartIndex"), 0),
     dataEndIndex |-> OrElse(Get(config, "dataEndIndex"), dataLength)]

\* C29: when validateBrushConfig returns null for a config object and a
\* non-empty dataset, buildBrushConfig returns the declared indices (0 and the
\* data length where undeclared) and they satisfy
\* 0 <= dataStartIndex < dataEndIndex <= data.length
ValidatedConfigBuildsAsDeclared ==
    ( /\ call.fn = "buildBrushConfig"
      /\ call.args.config # None
      /\ call.args.dataLength > 0
      /\ validateBrushConfig(call.args.config, call.args.dataLength) = None )
    => /\ ~call.result.threw
       /\ call.result.value.dataStartIndex
            = DeclaredRange(call.args.config[1], call.args.dataLength).dataStartIndex
       /\ call.result.value.dataEndIndex
            = DeclaredRange(call.args.config[1], call.args.dataLength).dataEndIndex
       /\ 0 <= call.result.value.dataStartIndex
       /\ call.result.value.dataStartIndex < call.result.value.dataEndIndex
       /\ call.result.value.dataEndIndex <= call.args.dataLength

(* ------------------------------ legendConfig ---------------------------- *)
\* HiddenSeriesState is an object from dataKey to boolean; a missing key reads
\* as undefined, which is falsy.

\* the series of the chart and the legend actions of its config
ChartSeries == {"sales", "revenue", "profit"}
LegendActions == {"filter", "highlight", "none", "undefined"}

\* !hiddenSeries[dataKey]
isSeriesVisible(dataKey, state) ==
    ~(dataKey \in DOMAIN state /\ state[dataKey])

\* Object.entries(newHiddenSeries).filter(([, hidden]) => !hidden).map(([key]) => key)
VisibleEntries(state) == { key \in DOMAIN state : ~state[key] }

Highlight(state, dataKey) ==
    IF VisibleEntries(state) = {dataKey}
    THEN [key \in DOMAIN state |-> FALSE]
    ELSE [key \in DOMAIN state |-> key # dataKey]

handleLegendClick(params, currentHiddenSeries, action) ==
    IF action = "none" THEN currentHiddenSeries
    ELSE IF action = "filter"
    THEN Put(currentHiddenSeries, params.dataKey,
             isSeriesVisible(params.dataKey, currentHiddenSeries))
    ELSE IF action = "highlight"
    THEN Highlight(currentHiddenSeries, params.dataKey)
    ELSE currentHiddenSeries

\* handleLegendItemClick of the chart: the state becomes what handleLegendClick
\* returns for config.legend?.onClick
OnLegendClick ==
    \E dataKey \in ChartSeries, action \in LegendActions :
        LET params == [dataKey |-> dataKey]
            newHiddenSeries == handleLegendClick(params, hiddenSeries, action)
        IN  /\ hiddenSeries' = newHiddenSeries
            /\ call' = [fn |-> "handleLegendClick",
                        args |-> [params |-> params,
                                  currentHiddenSeries |-> hiddenSeries,
                                  action |-> action],
                        result |-> newHiddenSeries]
            /\ UNCHANGED <<registryVars, storage, hooks, synced>>

LegendNext == OnLegendClick

LegendSpec == Init /\ [][LegendNext]_vars

\* the series of the chart that a hidden-series state shows
VisibleSeries(state) == { s \in ChartSeries : isSeriesVisible(s, state) }

\* C30: a 'highlight' click makes the clicked series the only visible series
\* of the chart, or all series visible when it was already the only visible
\* one; a 'none' click returns the state unchanged
HighlightIsolatesClickedSeries ==
    call.fn = "handleLegendClick" =>
        /\ call.args.action = "highlight" =>
            VisibleSeries(call.result) =
                IF VisibleSeries(call.args.currentHiddenSeries) = {call.args.params.dataKey}
                THEN ChartSeries
                ELSE {call.args.params.dataKey}
        /\ call.args.action = "none" => call.result = call.args.currentHiddenSeries

====
